---- MODULE Spec2Model ----
(***************************************************************************)
(* Blind-token authorization subsystem of the Gatekeeper / Zule identity   *)
(* authority: the token issuer, the consent registry, the rate limiter,    *)
(* the revocation ledger and the tenant registry, as the edge functions    *)
(* and the SQL functions of the schema implement them.                     *)
(*                                                                         *)
(* Time is a discrete clock `now`.  One minute is MinuteTicks ticks and    *)
(* the one-hour windows of the source (3600 s) are scaled to HourTicks     *)
(* ticks, so that a window spans several one-minute buckets.               *)
(*                                                                         *)
(* Every request is handled by a slot; a handler is a sequence of steps,   *)
(* one per datastore call (each RPC is its own transaction), and the two   *)
(* statements of check_rate_limit are two steps, because under READ        *)
(* COMMITTED each statement takes its own snapshot.                        *)
(*                                                                         *)
(* Cryptographic primitives are symbolic: an HMAC or a digest is the term  *)
(* built from its inputs, so two of them are equal exactly when their      *)
(* inputs are.                                                             *)
(***************************************************************************)
EXTENDS Integers, Sequences, FiniteSets, Bags, TLC

\* ------------------------------------------------------------------ bounds
MinuteTicks == 2
HourTicks == 4
MaxTime == 4
MaxRequests == 3
MaxRevokeRequests == 4
MaxConsentRequests == 5
MaxTokens == 3
NumSlots == 2
SeedRateMax == 2
SeedExpiry == 1
RetentionTicks == 1
FiveMinuteTicks == 1

\* --------------------------------------------------------- program constants
DEFAULT_RATE_LIMIT_MAX == 20
REVOKE_RATE_LIMIT_MAX == 10
REGISTER_RATE_LIMIT_MAX == 5
MAX_APPS_PER_USER == 10
SCHEMA_RATE_LIMIT_TOKENS_PER_HOUR == 1000
DEFAULT_TOKEN_VERSION == 1

DEFAULT_RATE_LIMIT_WINDOW == HourTicks
DEFAULT_TOKEN_EXPIRY == HourTicks
REVOKE_RATE_LIMIT_WINDOW == HourTicks
REGISTER_RATE_LIMIT_WINDOW == HourTicks

\* ------------------------------------------------------------------ domains
Users == {"u1", "u2"}
NoUser == "anonymous"
DefaultApp == "xenon-engine"
SeedApp == "demo-app"
NewApp == "new-app"
AppIds == {DefaultApp, SeedApp, NewApp}
Scopes == {"basic", "email"}
Slots == 1..NumSlots
Nonces == 1..MaxTokens
UnknownNonce == 0
ClientIp == "ip:203.0.113.7"
NullTime == -1

\* ------------------------------------------------------------- crypto terms
\* DEFAULT_BLIND_TOKEN_SECRET: the master secret read from the environment
DEFAULT_BLIND_TOKEN_SECRET ==
    [kind |-> "env", key |-> "BLIND_TOKEN_SECRET", msg |-> ""]

\* base64(HMAC-SHA256(key, msg)) as a term
HmacB64(key, msg) == [kind |-> "hmac-sha256-b64", key |-> key, msg |-> msg]

\* A mutant of getAppSigningSecret: every tenant gets the master secret.
getAppSigningSecretShared(appId) == DEFAULT_BLIND_TOKEN_SECRET

\* A mutant of getAppSigningSecret: the tenant id is left out of the message.
getAppSigningSecretNoId(appId) ==
    IF appId = DefaultApp \/ appId = ""
    THEN DEFAULT_BLIND_TOKEN_SECRET
    ELSE [kind |-> "hmac-sha256-b64", key |-> "BLIND_TOKEN_SECRET", msg |-> "app:"]

getAppSigningSecret(appId) ==
    IF appId = DefaultApp \/ appId = ""
    THEN DEFAULT_BLIND_TOKEN_SECRET
    ELSE [kind |-> "hmac-sha256-b64", key |-> "BLIND_TOKEN_SECRET",
          msg |-> "app:" \o appId]

\* base64Encode(JSON.stringify(payload)): an injective encoding of the payload
PayloadB64(payload) == [b64 |-> payload]

signPayload(payloadB64, secret) == HmacB64(secret, payloadB64)

hashToken(token) == [sha256 |-> token]

\* A mutant of generateBlindToken: the payload carries the caller.
generateBlindTokenWithSub(tier, appId, expirySeconds, tokenVersion, signingSecret, t, nonce, caller) ==
    LET payload == [iat |-> t, exp |-> t + expirySeconds, tier |-> tier,
                    nonce |-> nonce, app |-> appId, v |-> tokenVersion,
                    sub |-> caller]
        payloadB64 == PayloadB64(payload)
    IN [token |-> [payloadB64 |-> payloadB64,
                   signature |-> signPayload(payloadB64, signingSecret)],
        payload |-> payload]

\* generateBlindToken; t is Date.now() and nonce is crypto.randomUUID().
\* caller is the authenticated user in the handler's scope, which the
\* function is not given.
generateBlindToken(tier, appId, expirySeconds, tokenVersion, signingSecret, t, nonce, caller) ==
    LET payload == [iat |-> t, exp |-> t + expirySeconds, tier |-> tier,
                    nonce |-> nonce, app |-> appId, v |-> tokenVersion]
        payloadB64 == PayloadB64(payload)
    IN [token |-> [payloadB64 |-> payloadB64,
                   signature |-> signPayload(payloadB64, signingSecret)],
        payload |-> payload]

\* The resource server's check of a token against a secret: recompute the
\* HMAC over the encoded payload and compare.
VerifySignature(token, secret) ==
    token.signature = signPayload(token.payloadB64, secret)

\* gen_random_bytes(32) drawn by register_app for tenant appId
RandomSharedSecret(appId) ==
    [kind |-> "random", key |-> "gen_random_bytes", msg |-> appId]

\* crypt(secret, gen_salt('bf'))
Crypt(secret) == [bcrypt |-> secret]


\* ------------------------------------------------------------------- state
VARIABLES
    now,                  \* the clock: NOW() and Date.now()
    user_profiles,        \* user_profiles: user -> [tier, is_suspended]
    registered_apps,      \* registered_apps: app_id -> row, for registered tenants
    user_app_connections, \* user_app_connections: the set of rows
    rate_limits,          \* rate_limits: <<identifier, action, window_start>> -> count
    blind_token_log,      \* blind_token_log: token_nonce -> row
    app_token_log,        \* app_token_log: token_nonce -> [app_id, connected]
    audit_logs,           \* audit_logs: the bag of events (append-only)
    credentials,          \* what register_app returned, once, per tenant
    req,                  \* the requests in flight: slot -> handler state
    started,              \* number of requests accepted so far
    minted,               \* number of nonces drawn so far
    issued,               \* history: nonce -> the issuance answered with 200
    passkey_challenges,   \* passkey_challenges: challenge_key -> row
    pk_verified           \* history: the bag of challenges taken to signature verification

vars == <<now, user_profiles, registered_apps, user_app_connections, rate_limits,
          blind_token_log, app_token_log, audit_logs, credentials, req, started,
          minted, issued, passkey_challenges, pk_verified>>

passkey == <<passkey_challenges, pk_verified>>

db == <<user_profiles, registered_apps, user_app_connections, rate_limits,
        blind_token_log, app_token_log, audit_logs, credentials>>

\* ------------------------------------------------------------------ helpers
RECURSIVE SumOver(_, _)
SumOver(f, keys) ==
    IF keys = {} THEN 0
    ELSE LET k == CHOOSE x \in keys : TRUE
         IN f[k] + SumOver(f, keys \ {k})

\* date_trunc('minute', t)
DateTruncMinute(t) == t - (t % MinuteTicks)

Extend(f, k, v) == [x \in (DOMAIN f) \cup {k} |-> IF x = k THEN v ELSE f[x]]

\* A registered_apps row as register_app inserts it (schema defaults).
NewAppRow(owner, secret) ==
    [is_active |-> TRUE, is_verified |-> FALSE,
     token_expiry_seconds |-> DEFAULT_TOKEN_EXPIRY,
     token_version |-> DEFAULT_TOKEN_VERSION,
     rate_limit_tokens_per_hour |-> SCHEMA_RATE_LIMIT_TOKENS_PER_HOUR,
     allowed_scopes |-> {"basic"},
     owner_user_id |-> owner,
     shared_secret_hash |-> Crypt(secret),
     total_tokens_issued |-> 0, total_users_connected |-> 0]

NoSecret == [kind |-> "none", key |-> "", msg |-> ""]

\* No challenge_key, and no passkey_challenges row.
NoKey == <<"", 0>>
NoChallenge == [user_id |-> NoUser, expires_at |-> NullTime]

\* The handler state of an idle slot, and the locals every response resets.
IdleReq ==
    [op |-> "none", pc |-> "idle", user |-> NoUser, app |-> "", nonce |-> UnknownNonce,
     kind |-> "", scopes |-> {}, tier |-> "", hasCfg |-> FALSE, ttl |-> 0,
     rateMax |-> 0, version |-> 0, rlId |-> "", rlAction |-> "", vnow |-> 0,
     connId |-> 0,
     vcount |-> 0, rcount |-> 0, saw |-> FALSE, secret |-> NoSecret,
     ip |-> "", cred |-> "", key |-> NoKey, stored |-> NoChallenge,
     status |-> 0, body |-> [error |-> ""]]

Free(s) == req[s].pc \in {"idle", "done"}

\* jsonResponse(data, status): the slot holds the response until it is reused.
Respond(r, status, body) ==
    [IdleReq EXCEPT !.op = r.op, !.pc = "done", !.user = r.user, !.app = r.app,
                    !.nonce = r.nonce, !.kind = r.kind, !.scopes = r.scopes,
                    !.saw = r.saw, !.tier = r.tier, !.secret = r.secret,
                    !.vnow = now, !.status = status, !.body = body]

\* The rows of user_app_connections for the pair (u, a).
ConnRows(u, a) ==
    {c \in user_app_connections : c.user_id = u /\ c.app_id = a}

\* The consent row of (u, a) is in state Active.
ConsentActive(u, a) == \E c \in ConnRows(u, a) : c.is_active

\* ---------------------------------------------------------- SQL functions
\* get_app_config(p_app_id): the rows returned (none, or the tenant's row)
get_app_config(a) == IF a \in DOMAIN registered_apps THEN {registered_apps[a]} ELSE {}

\* check_app_connection(p_user_id, p_app_id).has_connection
check_app_connection(u, a) ==
    /\ a \in DOMAIN registered_apps
    /\ registered_apps[a].is_active
    /\ ConnRows(u, a) # {}
    /\ (CHOOSE c \in ConnRows(u, a) : TRUE).is_active

\* A mutant of get_user_tier_info: the suspension flag is not returned.
get_user_tier_info_unsuspended(u) == [user_profiles[u] EXCEPT !.is_suspended = FALSE]

\* get_user_tier_info(p_user_id)
get_user_tier_info(u) == user_profiles[u]

\* check_rate_limit, first statement: SELECT COALESCE(SUM(count), 0) ... of
\* the buckets of (identifier, action) with window_start > NOW() - window
RateWindowCount(identifier, action, t, window) ==
    SumOver(rate_limits,
            {k \in DOMAIN rate_limits :
                k[1] = identifier /\ k[2] = action /\ k[3] > t - window})

\* A mutant of RateUpsert: the conflicting bucket is overwritten.
RateUpsertOverwrite(identifier, action, t) ==
    LET k == <<identifier, action, DateTruncMinute(t)>>
    IN Extend(rate_limits, k, 1)

\* check_rate_limit, second statement: INSERT ... ON CONFLICT DO UPDATE
RateUpsert(identifier, action, t) ==
    LET k == <<identifier, action, DateTruncMinute(t)>>
    IN IF k \in DOMAIN rate_limits
       THEN [rate_limits EXCEPT ![k] = @ + 1]
       ELSE Extend(rate_limits, k, 1)

\* log_audit_event(p_user_id, p_action, p_category, ..., p_metadata)
AuditEvent(u, action, category, app) ==
    [user_id |-> u, action |-> action, action_category |-> category,
     app |-> app, success |-> TRUE]

\* A mutant of LogAudit: the event is written twice.
LogAuditTwice(event) == audit_logs (+) SetToBag({event}) (+) SetToBag({event})

\* INSERT INTO audit_logs
LogAudit(event) == audit_logs (+) SetToBag({event})

LedgerRow(u, hash, expires, tier) ==
    [user_id |-> u, token_hash |-> hash, issued_at |-> now, expires_at |-> expires,
     revoked_at |-> NullTime, revocation_reason |-> "", tier_at_issuance |-> tier]

\* ------------------------------------------------------------------- Init
SeedRows ==
    {[NewAppRow(NoUser, RandomSharedSecret(SeedApp))
        EXCEPT !.is_verified = v, !.rate_limit_tokens_per_hour = r,
               !.token_expiry_seconds = SeedExpiry] :
        v \in BOOLEAN, r \in 1..SeedRateMax}

\* The store after the migrations and the seeding, with the given profiles.
InitWith(profiles) ==
    /\ now = 0
    /\ user_profiles = profiles
    /\ \E row \in SeedRows, withDefault \in BOOLEAN :
         registered_apps =
            IF withDefault
            THEN (SeedApp :> row) @@
                 (DefaultApp :> NewAppRow(NoUser, RandomSharedSecret(DefaultApp)))
            ELSE (SeedApp :> row)
    /\ user_app_connections = {}
    /\ rate_limits = << >>
    /\ blind_token_log = << >>
    /\ app_token_log = << >>
    /\ audit_logs = EmptyBag
    /\ credentials = [a \in DOMAIN registered_apps |-> RandomSharedSecret(a)]
    /\ req = [s \in Slots |-> IdleReq]
    /\ started = 0
    /\ minted = 0
    /\ issued = << >>
    /\ passkey_challenges = << >>
    /\ pk_verified = EmptyBag

\* Every user on the defaults of user_profiles: tier free, not suspended.
Init == InitWith([u \in Users |-> [tier |-> "free", is_suspended |-> FALSE]])

\* Accounts an administrator has suspended (is_suspended is set with the
\* service role; no handler writes it).
InitSuspend ==
    \E p \in [Users -> {[tier |-> "free", is_suspended |-> b] : b \in BOOLEAN}] :
        InitWith(p)

\* A user close to the quota: u1 has registered MAX_APPS_PER_USER - 1
\* tenants before, one an hour from another address (each registration left
\* its row, its two audit events and its rate-limit bucket).
QuotaOwner == "u1"
OwnedBefore == {"owned-app-" \o ToString(i) : i \in 1..(MAX_APPS_PER_USER - 1)}
OtherApp == "other-app"
OtherIp == "ip:198.51.100.9"

InitQuota ==
    /\ now = 0
    /\ user_profiles = [u \in Users |-> [tier |-> "free", is_suspended |-> FALSE]]
    /\ \E row \in SeedRows :
         registered_apps =
            (SeedApp :> row) @@
            [a \in OwnedBefore |-> NewAppRow(QuotaOwner, RandomSharedSecret(a))]
    /\ user_app_connections = {}
    /\ rate_limits = [k \in {<<OtherIp, "app_register", 0 - (i * HourTicks)>> :
                                i \in 1..(MAX_APPS_PER_USER - 1)} |-> 1]
    /\ blind_token_log = << >>
    /\ app_token_log = << >>
    /\ audit_logs = [e \in {AuditEvent(QuotaOwner, "app_registered", "admin", a) :
                                a \in OwnedBefore} |-> 2]
    /\ credentials = [a \in DOMAIN registered_apps |-> RandomSharedSecret(a)]
    /\ req = [s \in Slots |-> IdleReq]
    /\ started = 0
    /\ minted = 0
    /\ issued = << >>
    /\ passkey_challenges = << >>
    /\ pk_verified = EmptyBag


\* ------------------------------------------------- the clock and admission
\* A request is short against a tick (half a minute): the clock moves
\* between the steps of no request.
Tick ==
    /\ \A s \in Slots : req[s].pc \in {"idle", "done"}
    /\ now < MaxTime
    /\ now' = now + 1
    /\ UNCHANGED <<db, passkey, req, started, minted, issued>>

\* A slot takes a new request while the run's budget of requests lasts.
Admit(s, budget) == Free(s) /\ started < budget

\* Every step of a request for (user, app) notes whether the consent row of
\* the pair is Active at that moment (a history field, not program state).
Note(r) == [r EXCEPT !.saw = @ \/ ConsentActive(r.user, r.app)]

\* x || d of the handlers: a missing (NULL) or zero setting falls back to d
OrDefault(x, d) == IF x = 0 THEN d ELSE x

Max(a, b) == IF a >= b THEN a ELSE b

\* ------------------------------------------------ check_rate_limit (shared)
\* Where a handler goes once its rate-limit check lets it through.
AfterRate(op) ==
    CASE op = "issue" -> "log"
      [] op = "revoke" -> "rv_body"
      [] OTHER -> "rg_auth"

RateLimitedBody(resetAt) ==
    [error |-> "Rate limit exceeded", retry_after |-> Max(0, resetAt - now)]

\* A mutant of RateDenied: the comparison is strict.
RateDeniedStrict(count, maxRequests) == count > maxRequests

\* IF v_current_count >= p_max_requests THEN ... allowed = FALSE
RateDenied(count, maxRequests) == count >= maxRequests

\* A mutant of RateFailed: a failed check refuses the request.
RateFailedClosed(r) == Respond(r, 429, RateLimitedBody(now))

\* if (rateError) { console.error(...) } -- continue anyway: the request
\* goes on to the step that follows the rate limit.
RateFailed(r) == [r EXCEPT !.pc = AfterRate(r.op)]

\* check_rate_limit, the SELECT and the decision.  A failed call (rateError)
\* lets the request through.  reset_at of a denial is
\* v_window_start + window = NOW().
RateRead(s, err) ==
    /\ req[s].pc = "rate"
    /\
        LET r == Note(req[s])
            count == RateWindowCount(r.rlId, r.rlAction, now, DEFAULT_RATE_LIMIT_WINDOW)
        IN req' = [req EXCEPT ![s] =
                IF err THEN RateFailed(r)
                ELSE IF RateDenied(count, r.rateMax)
                     THEN Respond(r, 429, RateLimitedBody((now - DEFAULT_RATE_LIMIT_WINDOW) + DEFAULT_RATE_LIMIT_WINDOW))
                     ELSE [r EXCEPT !.pc = "rate_write", !.vnow = now, !.vcount = count]]
    /\ UNCHANGED <<now, passkey, db, started, minted, issued>>

\* check_rate_limit, the INSERT ... ON CONFLICT DO UPDATE, in the bucket of
\* the transaction's NOW(); a failure rolls the call back and the handler
\* goes on.
RateWrite(s, err) ==
    /\ req[s].pc = "rate_write"
    /\
        LET r == Note(req[s])
        IN /\ rate_limits' = IF err THEN rate_limits
                             ELSE RateUpsert(r.rlId, r.rlAction, r.vnow)
           /\ req' = [req EXCEPT ![s] = [r EXCEPT !.pc = AfterRate(r.op)]]
    /\ UNCHANGED <<now, passkey, user_profiles, registered_apps, user_app_connections,
                   blind_token_log, app_token_log, audit_logs, credentials,
                   started, minted, issued>>


\* --------------------------------------------- blind-token-issue handler
\* Nonces drawn or still to be drawn by the requests in flight.
Minting == Cardinality({s \in Slots : req[s].op = "issue" /\ ~Free(s)})

\* POST, step 1: the bearer credential names a user or is rejected (401).
StartIssue(s, cred, a, budget) ==
    /\ Admit(s, budget)
    /\ minted + Minting < MaxTokens
    /\  LET r == [IdleReq EXCEPT !.op = "issue", !.user = cred, !.app = a]
        IN req' = [req EXCEPT ![s] =
                IF cred = NoUser
                THEN Respond(r, 401, [error |-> "Invalid or expired token"])
                ELSE Note([r EXCEPT !.pc = "tier"])]
    /\ started' = started + 1
    /\ UNCHANGED <<now, passkey, db, minted, issued>>

\* Step 2: get_user_tier_info; a failed lookup falls back to the free,
\* unsuspended default.
IssueTier(s, err) ==
    /\ req[s].pc = "tier"
    /\
        LET r == Note(req[s])
            userTier == IF err THEN [tier |-> "free", is_suspended |-> FALSE]
                        ELSE get_user_tier_info(r.user)
        IN req' = [req EXCEPT ![s] =
                IF userTier.is_suspended
                THEN Respond(r, 403, [error |-> "Account suspended"])
                ELSE [r EXCEPT !.pc = "app", !.tier = userTier.tier]]
    /\ UNCHANGED <<now, passkey, db, started, minted, issued>>

\* Step 3: get_app_config.  A failed lookup (appError) is logged and leaves
\* appData empty, like an unregistered tenant.  originOk: the request has no
\* Origin header or one the tenant allows.
IssueApp(s, err) ==
    /\ req[s].pc = "app"
    /\ \E originOk \in BOOLEAN :
        LET r == Note(req[s])
            appData == IF err THEN {} ELSE get_app_config(r.app)
        IN req' = [req EXCEPT ![s] =
                IF appData # {}
                THEN LET appConfig == CHOOSE c \in appData : TRUE
                     IN IF ~appConfig.is_active
                        THEN Respond(r, 403, [error |-> "Application is not active"])
                        ELSE IF ~originOk
                        THEN Respond(r, 403, [error |-> "Origin not allowed"])
                        ELSE [r EXCEPT !.pc = "conn", !.hasCfg = TRUE,
                                !.ttl = OrDefault(appConfig.token_expiry_seconds, DEFAULT_TOKEN_EXPIRY),
                                !.rateMax = OrDefault(appConfig.rate_limit_tokens_per_hour, DEFAULT_RATE_LIMIT_MAX),
                                !.version = OrDefault(appConfig.token_version, DEFAULT_TOKEN_VERSION)]
                ELSE IF r.app # DefaultApp
                THEN Respond(r, 404, [error |-> "Unknown application"])
                ELSE [r EXCEPT !.pc = "rate", !.hasCfg = FALSE,
                        !.ttl = DEFAULT_TOKEN_EXPIRY, !.rateMax = DEFAULT_RATE_LIMIT_MAX,
                        !.version = DEFAULT_TOKEN_VERSION,
                        !.rlId = r.user \o ":" \o r.app, !.rlAction = "blind_token"]]
    /\ UNCHANGED <<now, passkey, db, started, minted, issued>>

ConsentRequiredBody(r) ==
    [error |-> "App authorization required", requires_consent |-> TRUE,
     app_id |-> r.app, is_verified |-> registered_apps[r.app].is_verified,
     allowed_scopes |-> registered_apps[r.app].allowed_scopes]

\* A mutant of ConsentGate: verified tenants are let through without a
\* connection (the auto-authorization of the earlier handler).
ConsentGateTrusting(hasConnection, isVerified) == hasConnection \/ isVerified

\* if (!connection?.has_connection) -> 403: the request passes only with an
\* active connection, whatever the tenant's is_verified flag.
ConsentGate(hasConnection, isVerified) == hasConnection

\* A mutant of IssueConn: the request is counted against the rate limit
\* before the consent check.
IssueConnCounted(s, err) ==
    /\ req[s].pc = "conn"
    /\
        LET r == Note(req[s])
            hasConnection == ~err /\ check_app_connection(r.user, r.app)
        IN /\ req' = [req EXCEPT ![s] =
                IF ~ConsentGate(hasConnection, registered_apps[r.app].is_verified)
                THEN Respond(r, 403, ConsentRequiredBody(r))
                ELSE [r EXCEPT !.pc = "rate",
                        !.rlId = r.user \o ":" \o r.app, !.rlAction = "blind_token"]]
           /\ rate_limits' = RateUpsert(r.user \o ":" \o r.app, "blind_token", now)
    /\ UNCHANGED <<now, passkey, user_profiles, registered_apps, user_app_connections,
                   blind_token_log, app_token_log, audit_logs, credentials,
                   started, minted, issued>>

\* Step 4 (registered tenants only): check_app_connection.  A failed check
\* (connectionError) leaves connection undefined, which is rejected.
IssueConn(s, err) ==
    /\ req[s].pc = "conn"
    /\
        LET r == Note(req[s])
            hasConnection == ~err /\ check_app_connection(r.user, r.app)
        IN req' = [req EXCEPT ![s] =
                IF ~ConsentGate(hasConnection, registered_apps[r.app].is_verified)
                THEN Respond(r, 403, ConsentRequiredBody(r))
                ELSE [r EXCEPT !.pc = "rate",
                        !.rlId = r.user \o ":" \o r.app, !.rlAction = "blind_token"]]
    /\ UNCHANGED <<now, passkey, db, started, minted, issued>>

\* log_app_token_issuance: the ledger row, the tenant linkage and the two
\* usage counters, in one transaction.
log_app_token_issuance(u, a, nonce, hash, expires, tier) ==
    LET active == {c \in ConnRows(u, a) : c.is_active}
        connected == active # {}
        v_connection_id == IF connected THEN (CHOOSE c \in active : TRUE).id ELSE 0
    IN /\ blind_token_log' = Extend(blind_token_log, nonce, LedgerRow(u, hash, expires, tier))
       /\ app_token_log' = Extend(app_token_log, nonce, [app_id |-> a, connected |-> connected])
       /\ user_app_connections' =
            {IF c.id = v_connection_id THEN [c EXCEPT !.tokens_issued = @ + 1] ELSE c :
                c \in user_app_connections}
       /\ registered_apps' = [registered_apps EXCEPT ![a].total_tokens_issued = @ + 1]

\* log_token_issuance (legacy single-app logging): the ledger row only.
log_token_issuance(u, nonce, hash, expires, tier) ==
    /\ blind_token_log' = Extend(blind_token_log, nonce, LedgerRow(u, hash, expires, tier))
    /\ UNCHANGED <<app_token_log, user_app_connections, registered_apps>>

\* Step 10: the body of the 200 response.
IssueResponse(token, payload, tier, targetAppId) ==
    [blind_token |-> token, expires_at |-> payload.exp, tier |-> tier,
     app |-> targetAppId]

\* Steps 6-8: derive the signing secret, generate the token, log it.  A
\* failed log call (logError) writes nothing and the handler goes on.
IssueLog(s, err) ==
    /\ req[s].pc = "log"
    /\
        LET r == Note(req[s])
            signingSecret == getAppSigningSecret(r.app)
            gen == generateBlindToken(r.tier, r.app, r.ttl, r.version, signingSecret,
                                      now, minted + 1, r.user)
            tokenHash == hashToken(gen.token)
        IN /\ IF err
              THEN UNCHANGED <<blind_token_log, app_token_log, user_app_connections,
                               registered_apps>>
              ELSE IF r.hasCfg
              THEN log_app_token_issuance(r.user, r.app, gen.payload.nonce, tokenHash,
                                          gen.payload.exp, r.tier)
              ELSE log_token_issuance(r.user, gen.payload.nonce, tokenHash,
                                      gen.payload.exp, r.tier)
           /\ req' = [req EXCEPT ![s] =
                [r EXCEPT !.pc = "audit", !.nonce = gen.payload.nonce,
                          !.secret = signingSecret,
                          !.body = IssueResponse(gen.token, gen.payload, r.tier, r.app)]]
    /\ minted' = minted + 1
    /\ UNCHANGED <<now, passkey, user_profiles, rate_limits, audit_logs, credentials, started, issued>>

\* Steps 9-10: the audit event (a failed write is only logged) and the
\* response.
IssueAudit(s, err) ==
    /\ req[s].pc = "audit"
    /\
        LET r == Note(req[s])
        IN /\ audit_logs' = IF err THEN audit_logs
                            ELSE LogAudit(AuditEvent(r.user, "blind_token_issued", "token", r.app))
           /\ req' = [req EXCEPT ![s] = Respond(r, 200, r.body)]
           /\ issued' = Extend(issued, r.nonce,
                    [user |-> r.user, app |-> r.app, tier |-> r.tier,
                     secret |-> r.secret, saw |-> r.saw, at |-> now,
                     token |-> r.body.blind_token, body |-> r.body])
    /\ UNCHANGED <<now, passkey, user_profiles, registered_apps, user_app_connections,
                   rate_limits, blind_token_log, app_token_log, credentials,
                   started, minted>>


\* ------------------------------------------------ app-connections handler
\* POST /app-connections: authenticate, then look the tenant up.
StartGrant(s, cred, a, sc, budget) ==
    /\ Admit(s, budget)
    /\  LET r == [IdleReq EXCEPT !.op = "grant", !.user = cred, !.app = a, !.scopes = sc]
        IN req' = [req EXCEPT ![s] =
                IF cred = NoUser
                THEN Respond(r, 401, [error |-> "Invalid or expired token"])
                ELSE Note([r EXCEPT !.pc = "g_app"])]
    /\ started' = started + 1
    /\ UNCHANGED <<now, passkey, db, minted, issued>>

\* get_app_config, the is_active check and the scope validation.
GrantApp(s, err) ==
    /\ req[s].pc = "g_app"
    /\
        LET r == Note(req[s])
            appData == IF err THEN {} ELSE get_app_config(r.app)
        IN req' = [req EXCEPT ![s] =
                IF appData = {}
                THEN Respond(r, 404, [error |-> "App not found"])
                ELSE LET app == CHOOSE c \in appData : TRUE
                         invalidScopes == r.scopes \ app.allowed_scopes
                     IN IF ~app.is_active
                        THEN Respond(r, 403, [error |-> "App is not active"])
                        ELSE IF invalidScopes # {}
                        THEN Respond(r, 400, [error |-> "Invalid scopes requested"])
                        ELSE [r EXCEPT !.pc = "g_authz"]]
    /\ UNCHANGED <<now, passkey, db, started, minted, issued>>

\* INSERT INTO user_app_connections (user_id, app_id, granted_scopes): the
\* other columns take their defaults; id is a fresh key.
ConnectionRow(id, u, a, sc) ==
    [id |-> id, user_id |-> u, app_id |-> a, is_active |-> TRUE,
     granted_scopes |-> sc, revoked_at |-> NullTime, revoked_by |-> "",
     tokens_issued |-> 0]

\* A mutant of Reactivate: the re-grant starts the row afresh.
ReactivateReset(c, sc) ==
    [c EXCEPT !.is_active = TRUE, !.granted_scopes = sc, !.revoked_at = NullTime,
              !.revoked_by = "", !.tokens_issued = 0]

\* authorize_app_connection, the UPDATE of the existing row: SET is_active,
\* granted_scopes, revoked_at = NULL, revoked_by = NULL
Reactivate(c, sc) ==
    [c EXCEPT !.is_active = TRUE, !.granted_scopes = sc, !.revoked_at = NullTime,
              !.revoked_by = ""]

\* A mutant of UniqueViolation: the table has no UNIQUE(user_id, app_id).
UniqueViolationNever(u, a) == FALSE

\* UNIQUE(user_id, app_id): an INSERT for a pair that has a row raises.
UniqueViolation(u, a) == ConnRows(u, a) # {}

\* authorize_app_connection, first statements: it raises for a tenant that
\* is missing or inactive, then selects the id of the pair's row (0: none).
GrantSelect(s, err) ==
    /\ req[s].pc = "g_authz"
    /\
        LET r == Note(req[s])
            raises == err \/ r.app \notin DOMAIN registered_apps
                          \/ ~registered_apps[r.app].is_active
            found == ConnRows(r.user, r.app)
        IN req' = [req EXCEPT ![s] =
                IF raises
                THEN Respond(r, 500, [error |-> "Failed to authorize app"])
                ELSE [r EXCEPT !.pc = "g_write",
                        !.connId = IF found = {} THEN 0
                                   ELSE (CHOOSE c \in found : TRUE).id]]
    /\ UNCHANGED <<now, passkey, db, started, minted, issued>>

\* authorize_app_connection, the write: reactivate the row found, or insert
\* a new one and count the user on the tenant; then log the authorization.
\* A failure (err, the UNIQUE constraint, or auditErr: the INSERT of
\* log_audit_event, which the function PERFORMs in its own transaction and
\* does not catch) rolls the call back.
GrantCommit(s, err, auditErr) ==
    /\ req[s].pc = "g_write"
    /\
        LET r == Note(req[s])
            isNew == r.connId = 0
            raises == err \/ auditErr \/ (isNew /\ UniqueViolation(r.user, r.app))
        IN IF raises
           THEN /\ req' = [req EXCEPT ![s] = Respond(r, 500, [error |-> "Failed to authorize app"])]
                /\ UNCHANGED <<user_app_connections, registered_apps, audit_logs>>
           ELSE /\ user_app_connections' =
                    IF isNew
                    THEN user_app_connections \cup
                            {ConnectionRow(Cardinality(user_app_connections) + 1,
                                           r.user, r.app, r.scopes)}
                    ELSE {IF c.id = r.connId THEN Reactivate(c, r.scopes) ELSE c :
                            c \in user_app_connections}
                /\ registered_apps' =
                    IF isNew
                    THEN [registered_apps EXCEPT ![r.app].total_users_connected = @ + 1]
                    ELSE registered_apps
                /\ audit_logs' = LogAudit(AuditEvent(r.user,
                                   IF isNew THEN "app_authorized" ELSE "app_reauthorized",
                                   "auth", r.app))
                /\ req' = [req EXCEPT ![s] =
                        Respond(r, IF isNew THEN 201 ELSE 200,
                                [success |-> TRUE, is_new |-> isNew, app_id |-> r.app,
                                 scopes |-> r.scopes])]
    /\ UNCHANGED <<now, passkey, user_profiles, rate_limits, blind_token_log, app_token_log,
                   credentials, started, minted, issued>>

\* The call with the audit store accepting the event.
GrantWrite(s, err) == GrantCommit(s, err, FALSE)

\* DELETE /app-connections?app_id=: authenticate.
StartUnconsent(s, cred, a, budget) ==
    /\ Admit(s, budget)
    /\  LET r == [IdleReq EXCEPT !.op = "unconsent", !.user = cred, !.app = a]
        IN req' = [req EXCEPT ![s] =
                IF cred = NoUser
                THEN Respond(r, 401, [error |-> "Invalid or expired token"])
                ELSE Note([r EXCEPT !.pc = "u_rpc"])]
    /\ started' = started + 1
    /\ UNCHANGED <<now, passkey, db, minted, issued>>

\* A mutant of revoke_app_connection_rows: the UPDATE has no
\* is_active = TRUE in its WHERE.
revoke_app_connection_rows_any(u, a) ==
    IF a \in DOMAIN registered_apps THEN ConnRows(u, a) ELSE {}

\* The rows the UPDATE of revoke_app_connection matches: none for a tenant
\* the registry does not hold (RETURN FALSE), else the rows with
\* user_id = u AND app_id = a AND is_active = TRUE.
revoke_app_connection_rows(u, a) ==
    IF a \in DOMAIN registered_apps
    THEN {c \in ConnRows(u, a) : c.is_active}
    ELSE {}

\* A mutant of UnconsentCommit: the revocation of the consent also revokes
\* the tokens of the pair in the ledger.
UnconsentCommitCascade(s, err, auditErr) ==
    /\ req[s].pc = "u_rpc"
    /\
        LET r == Note(req[s])
            hit == revoke_app_connection_rows(r.user, r.app)
            revoked == hit # {}
            tokens == {n \in DOMAIN blind_token_log :
                        /\ blind_token_log[n].user_id = r.user
                        /\ blind_token_log[n].revoked_at = NullTime
                        /\ n \in DOMAIN app_token_log
                        /\ app_token_log[n].app_id = r.app}
        IN IF err \/ (revoked /\ auditErr)
           THEN /\ req' = [req EXCEPT ![s] = Respond(r, 500, [error |-> "Failed to revoke app"])]
                /\ UNCHANGED <<user_app_connections, audit_logs, blind_token_log>>
           ELSE IF ~revoked
           THEN /\ req' = [req EXCEPT ![s] = Respond(r, 404, [error |-> "No active connection found"])]
                /\ UNCHANGED <<user_app_connections, audit_logs, blind_token_log>>
           ELSE /\ user_app_connections' =
                    {IF c \in hit
                     THEN [c EXCEPT !.is_active = FALSE, !.revoked_at = now,
                                    !.revoked_by = "user"]
                     ELSE c : c \in user_app_connections}
                /\ audit_logs' = LogAudit(AuditEvent(r.user, "app_revoked", "auth", r.app))
                /\ blind_token_log' =
                    [n \in DOMAIN blind_token_log |->
                        IF n \in tokens
                        THEN [blind_token_log[n] EXCEPT !.revoked_at = now,
                                                        !.revocation_reason = "app_revoked"]
                        ELSE blind_token_log[n]]
                /\ req' = [req EXCEPT ![s] =
                        Respond(r, 200, [success |-> TRUE, app_id |-> r.app])]
    /\ UNCHANGED <<now, passkey, user_profiles, registered_apps, rate_limits,
                   app_token_log, credentials, started, minted, issued>>

\* revoke_app_connection(p_user_id, p_app_id, 'user'): the UPDATE touches
\* the row only while it is active, and logs only then; a failure of that
\* INSERT of log_audit_event (auditErr) rolls the call back like any other.
UnconsentCommit(s, err, auditErr) ==
    /\ req[s].pc = "u_rpc"
    /\
        LET r == Note(req[s])
            hit == revoke_app_connection_rows(r.user, r.app)
            revoked == hit # {}
        IN IF err \/ (revoked /\ auditErr)
           THEN /\ req' = [req EXCEPT ![s] = Respond(r, 500, [error |-> "Failed to revoke app"])]
                /\ UNCHANGED <<user_app_connections, audit_logs>>
           ELSE IF ~revoked
           THEN /\ req' = [req EXCEPT ![s] = Respond(r, 404, [error |-> "No active connection found"])]
                /\ UNCHANGED <<user_app_connections, audit_logs>>
           ELSE /\ user_app_connections' =
                    {IF c \in hit
                     THEN [c EXCEPT !.is_active = FALSE, !.revoked_at = now,
                                    !.revoked_by = "user"]
                     ELSE c : c \in user_app_connections}
                /\ audit_logs' = LogAudit(AuditEvent(r.user, "app_revoked", "auth", r.app))
                /\ req' = [req EXCEPT ![s] =
                        Respond(r, 200, [success |-> TRUE, app_id |-> r.app])]
    /\ UNCHANGED <<now, passkey, user_profiles, registered_apps, rate_limits, blind_token_log,
                   app_token_log, credentials, started, minted, issued>>

\* The call with the audit store accepting the event.
Unconsent(s, err) == UnconsentCommit(s, err, FALSE)

\* ------------------------------------------------- revoke-token handler
\* What the body of a revoke request holds: a well-formed token_nonce,
\* revoke_all: true (with or without a nonce), neither, no JSON at all, or a
\* token_nonce that is not a UUID.
RevokeKinds == {"nonce", "all", "empty", "invalid_json", "malformed"}

\* is_token_revoked(p_token_nonce): FALSE for a nonce the ledger does not hold
is_token_revoked(nonce) ==
    /\ nonce \in DOMAIN blind_token_log
    /\ blind_token_log[nonce].revoked_at # NullTime

\* A mutant of RevokeAllRows: the UPDATE has no revoked_at IS NULL.
RevokeAllRowsAgain(u, t) ==
    {n \in DOMAIN blind_token_log :
        /\ blind_token_log[n].user_id = u
        /\ blind_token_log[n].expires_at > t}

\* The rows the UPDATE of revoke_all matches at time t:
\* user_id = u, revoked_at IS NULL, expires_at > t
RevokeAllRows(u, t) ==
    {n \in DOMAIN blind_token_log :
        /\ blind_token_log[n].user_id = u
        /\ blind_token_log[n].revoked_at = NullTime
        /\ blind_token_log[n].expires_at > t}

\* The rows the UPDATE of revoke_blind_token matches:
\* token_nonce = p_token_nonce AND revoked_at IS NULL
revoke_blind_token_rows(nonce) ==
    {n \in DOMAIN blind_token_log :
        n = nonce /\ blind_token_log[n].revoked_at = NullTime}

\* SET revoked_at = t, revocation_reason = reason on the matched rows.
SetRevoked(rows, t, reason) ==
    [n \in DOMAIN blind_token_log |->
        IF n \in rows
        THEN [blind_token_log[n] EXCEPT !.revoked_at = t, !.revocation_reason = reason]
        ELSE blind_token_log[n]]

\* `count` of the response to the revoke_all UPDATE.  PostgREST counts the
\* rows only when asked through the Prefer header, which the client sets
\* from the options of update(); the handler passes { count: 'exact' } to
\* the select() that follows, which reads its column list alone, so the
\* response carries no count (null, here 0) whatever rows were updated.
UpdateResponseCount(rows) == 0

\* A mutant of OwnsToken: the handler does not compare the owner.
OwnsTokenAnyone(row, u) == TRUE

\* if (tokenData.user_id !== user.id) -> 404
OwnsToken(row, u) == row.user_id = u

\* A mutant of AlreadyRevoked: a revoked token is reported as a conflict.
AlreadyRevokedConflict(r) ==
    Respond(r, 409, [error |-> "Token already revoked"])

\* if (tokenData.revoked_at) -> 200 with revoked_count 0 (no audit event)
AlreadyRevoked(r) ==
    Respond(r, 200, [success |-> TRUE, revoked_count |-> 0,
                     message |-> "Token already revoked"])

\* Step 1: authenticate; the rate limit is keyed by the user.
StartRevoke(s, cred, kind, nonce, budget) ==
    /\ Admit(s, budget)
    /\  LET r == [IdleReq EXCEPT !.op = "revoke", !.user = cred, !.kind = kind,
                                 !.nonce = nonce]
        IN req' = [req EXCEPT ![s] =
                IF cred = NoUser
                THEN Respond(r, 401, [error |-> "Invalid or expired token"])
                ELSE [r EXCEPT !.pc = "rate", !.rlId = "user:" \o cred,
                               !.rlAction = "token_revoke",
                               !.rateMax = REVOKE_RATE_LIMIT_MAX]]
    /\ started' = started + 1
    /\ UNCHANGED <<now, passkey, db, minted, issued>>

\* Step 3: parse the body, then either the UPDATE of revoke_all or the
\* lookup of the nonce (err: that datastore call fails).
RevokeBody(s, err) ==
    /\ req[s].pc = "rv_body"
    /\
        LET r == req[s]
            rows == RevokeAllRows(r.user, now)
        IN CASE r.kind = "invalid_json" ->
                /\ req' = [req EXCEPT ![s] = Respond(r, 400, [error |-> "Invalid JSON body"])]
                /\ UNCHANGED blind_token_log
             [] r.kind = "empty" ->
                /\ req' = [req EXCEPT ![s] =
                        Respond(r, 400, [error |-> "Must provide token_nonce or revoke_all: true"])]
                /\ UNCHANGED blind_token_log
             [] r.kind = "all" ->
                IF err
                THEN /\ req' = [req EXCEPT ![s] = Respond(r, 500, [error |-> "Failed to revoke tokens"])]
                     /\ UNCHANGED blind_token_log
                ELSE /\ blind_token_log' = SetRevoked(rows, now, "user_revoke_all")
                     /\ req' = [req EXCEPT ![s] =
                            [r EXCEPT !.pc = "rv_audit",
                                      !.rcount = OrDefault(UpdateResponseCount(rows), 0)]]
             [] r.kind = "malformed" ->
                /\ req' = [req EXCEPT ![s] = Respond(r, 400, [error |-> "Invalid token_nonce format"])]
                /\ UNCHANGED blind_token_log
             [] OTHER ->
                /\ req' = [req EXCEPT ![s] =
                        IF err
                        THEN Respond(r, 500, [error |-> "Failed to lookup token"])
                        ELSE IF r.nonce \notin DOMAIN blind_token_log
                        THEN Respond(r, 404, [error |-> "Token not found"])
                        ELSE IF ~OwnsToken(blind_token_log[r.nonce], r.user)
                        THEN Respond(r, 404, [error |-> "Token not found"])
                        ELSE IF blind_token_log[r.nonce].revoked_at # NullTime
                        THEN AlreadyRevoked(r)
                        ELSE [r EXCEPT !.pc = "rv_rpc"]]
                /\ UNCHANGED blind_token_log
    /\ UNCHANGED <<now, passkey, user_profiles, registered_apps, user_app_connections,
                   rate_limits, app_token_log, audit_logs, credentials, started,
                   minted, issued>>

\* revoke_blind_token declares v_updated BOOLEAN, stores ROW_COUNT in it
\* and ends with RETURN v_updated > 0.  PostgreSQL has no operator
\* boolean > integer and resolves the expression only when it is run, so
\* the function is created but every call raises at the RETURN, and the
\* call's transaction, its UPDATE included, is rolled back.
\* (revoke_app_connection, written the same way, declares INTEGER.)
revoke_blind_token_raises == TRUE

\* revoke_blind_token(p_token_nonce, 'user_revocation'): returns whether a
\* row was updated; revokedCount = revokeResult ? 1 : 0.  A call that fails
\* (revokeError) is answered with 500.
RevokeRpc(s, err) ==
    /\ req[s].pc = "rv_rpc"
    /\
        LET r == req[s]
            rows == revoke_blind_token_rows(r.nonce)
        IN IF err \/ revoke_blind_token_raises
           THEN /\ req' = [req EXCEPT ![s] = Respond(r, 500, [error |-> "Failed to revoke token"])]
                /\ UNCHANGED blind_token_log
           ELSE /\ blind_token_log' = SetRevoked(rows, now, "user_revocation")
                /\ req' = [req EXCEPT ![s] =
                        [r EXCEPT !.pc = "rv_audit",
                                  !.rcount = IF rows # {} THEN 1 ELSE 0]]
    /\ UNCHANGED <<now, passkey, user_profiles, registered_apps, user_app_connections,
                   rate_limits, app_token_log, audit_logs, credentials, started,
                   minted, issued>>

\* Step 4: the audit event (a failed write is only logged), then the 200.
RevokeAudit(s, err) ==
    /\ req[s].pc = "rv_audit"
    /\
        LET r == req[s]
            action == IF r.kind = "all" THEN "tokens_revoked_all" ELSE "token_revoked"
        IN /\ audit_logs' = IF err THEN audit_logs
                            ELSE LogAudit(AuditEvent(r.user, action, "security", ""))
           /\ req' = [req EXCEPT ![s] =
                    Respond(r, 200, [success |-> TRUE, revoked_count |-> r.rcount])]
    /\ UNCHANGED <<now, passkey, user_profiles, registered_apps, user_app_connections,
                   rate_limits, blind_token_log, app_token_log, credentials,
                   started, minted, issued>>


\* --------------------------------------------------- app-register handler
\* The x-admin-key credential of an admin registration (no owner).
AdminKey == "x-admin-key"

\* What the body of a registration holds: a valid request, no JSON at all,
\* or fields validateRegistrationRequest rejects.
RegisterKinds == {"valid", "invalid_json", "invalid_fields"}

\* SELECT count(*) FROM registered_apps WHERE owner_user_id = u
OwnedApps(u) ==
    Cardinality({a \in DOMAIN registered_apps : registered_apps[a].owner_user_id = u})

\* POST /app-register: the rate limit by client IP comes first.
StartRegister(s, cred, a, kind, budget) ==
    /\ Admit(s, budget)
    /\ req' = [req EXCEPT ![s] =
            [IdleReq EXCEPT !.op = "register", !.pc = "rate", !.user = cred,
                            !.app = a, !.kind = kind, !.rlId = ClientIp,
                            !.rlAction = "app_register",
                            !.rateMax = REGISTER_RATE_LIMIT_MAX]]
    /\ started' = started + 1
    /\ UNCHANGED <<now, passkey, db, minted, issued>>

\* Authenticate (admin key or user JWT), count the user's apps (err: the
\* count query fails), parse and validate the body.
RegisterAuth(s, err) ==
    /\ req[s].pc = "rg_auth"
    /\
        LET r == req[s]
        IN req' = [req EXCEPT ![s] =
                IF r.user = NoUser
                THEN Respond(r, 401, [error |-> "Authentication required (admin key or user JWT)"])
                ELSE IF r.user # AdminKey /\ err
                THEN Respond(r, 500, [error |-> "Failed to check app limit"])
                ELSE IF r.user # AdminKey /\ OwnedApps(r.user) >= MAX_APPS_PER_USER
                THEN Respond(r, 403, [error |-> "Maximum apps per user exceeded (10)"])
                ELSE IF r.kind = "invalid_json"
                THEN Respond(r, 400, [error |-> "Invalid JSON body"])
                ELSE IF r.kind = "invalid_fields"
                THEN Respond(r, 400, [error |-> "validation failed"])
                ELSE [r EXCEPT !.pc = "rg_exist"]]
    /\ UNCHANGED <<now, passkey, db, started, minted, issued>>

\* Check if app_id already exists.
RegisterExisting(s, err) ==
    /\ req[s].pc = "rg_exist"
    /\
        LET r == req[s]
        IN req' = [req EXCEPT ![s] =
                IF err
                THEN Respond(r, 500, [error |-> "Failed to check app availability"])
                ELSE IF r.app \in DOMAIN registered_apps
                THEN Respond(r, 409, [error |-> "App ID already registered"])
                ELSE [r EXCEPT !.pc = "rg_rpc"]]
    /\ UNCHANGED <<now, passkey, db, started, minted, issued>>

\* register_app: draws the shared secret, inserts the row with the hash of
\* the secret, logs 'app_registered' and returns the secret.  The call fails
\* (err, or the UNIQUE constraint on app_id) without any effect.
RegisterRpc(s, err) ==
    /\ req[s].pc = "rg_rpc"
    /\
        LET r == req[s]
            owner == IF r.user = AdminKey THEN NoUser ELSE r.user
            v_shared_secret == RandomSharedSecret(r.app)
        IN IF err \/ r.app \in DOMAIN registered_apps
           THEN /\ req' = [req EXCEPT ![s] = Respond(r, 500, [error |-> "Failed to register app"])]
                /\ UNCHANGED <<registered_apps, audit_logs>>
           ELSE /\ registered_apps' = Extend(registered_apps, r.app,
                                             NewAppRow(owner, v_shared_secret))
                /\ audit_logs' = LogAudit(AuditEvent(owner, "app_registered", "admin", r.app))
                /\ req' = [req EXCEPT ![s] =
                        [r EXCEPT !.pc = "rg_audit", !.secret = v_shared_secret]]
    /\ UNCHANGED <<now, passkey, user_profiles, user_app_connections, rate_limits,
                   blind_token_log, app_token_log, credentials, started, minted,
                   issued>>

\* The handler's own 'app_registered' audit event (its result is not read),
\* then the 201 carrying the credentials, which the owner keeps.
RegisterAudit(s, err) ==
    /\ req[s].pc = "rg_audit"
    /\
        LET r == req[s]
            owner == IF r.user = AdminKey THEN NoUser ELSE r.user
        IN /\ audit_logs' = IF err THEN audit_logs
                            ELSE LogAudit(AuditEvent(owner, "app_registered", "admin", r.app))
           /\ req' = [req EXCEPT ![s] =
                    Respond(r, 201, [success |-> TRUE, app_id |-> r.app,
                                     shared_secret |-> r.secret])]
           /\ credentials' = Extend(credentials, r.app, r.secret)
    /\ UNCHANGED <<now, passkey, user_profiles, registered_apps, user_app_connections,
                   rate_limits, blind_token_log, app_token_log, started, minted,
                   issued>>


\* ------------------------------------------------- direct table access
\* UPDATE registered_apps SET allowed_scopes, is_active, is_verified WHERE
\* app_id = a, sent by an authenticated user through the REST interface.
\* The policy registered_apps_owner_update admits the rows the user owns
\* (USING) and rejects the statement when the new row's is_verified differs
\* from the stored one (WITH CHECK); it constrains no other column.  The
\* statement is one transaction.
OwnerUpdate(u, a, sc, active, verified, budget) ==
    /\ started < budget
    /\ a \in DOMAIN registered_apps
    /\ registered_apps[a].owner_user_id = u
    /\ registered_apps' =
            IF verified = registered_apps[a].is_verified
            THEN [registered_apps EXCEPT ![a].allowed_scopes = sc,
                                         ![a].is_active = active]
            ELSE registered_apps
    /\ started' = started + 1
    /\ UNCHANGED <<now, passkey, user_profiles, user_app_connections, rate_limits,
                   blind_token_log, app_token_log, audit_logs, credentials, req,
                   minted, issued>>

\* UPDATE registered_apps SET is_active = FALSE WHERE app_id = a, by an
\* administrator with the service role (policy registered_apps_service_role),
\* between requests.
ServiceDeactivate(a, budget) ==
    /\ \A s \in Slots : Free(s)
    /\ started < budget
    /\ a \in DOMAIN registered_apps
    /\ registered_apps[a].is_active
    /\ registered_apps' = [registered_apps EXCEPT ![a].is_active = FALSE]
    /\ started' = started + 1
    /\ UNCHANGED <<now, passkey, user_profiles, user_app_connections, rate_limits,
                   blind_token_log, app_token_log, audit_logs, credentials, req,
                   minted, issued>>

\* UPDATE registered_apps SET token_expiry_seconds = ttl WHERE app_id = a, by
\* an administrator with the service role, between requests.  The column is
\* an INTEGER with a default and no CHECK.
ServiceSetExpiry(a, ttl, budget) ==
    /\ \A s \in Slots : Free(s)
    /\ started < budget
    /\ a \in DOMAIN registered_apps
    /\ registered_apps' = [registered_apps EXCEPT ![a].token_expiry_seconds = ttl]
    /\ started' = started + 1
    /\ UNCHANGED <<now, passkey, user_profiles, user_app_connections, rate_limits,
                   blind_token_log, app_token_log, audit_logs, credentials, req,
                   minted, issued>>

\* ------------------------------------------------------- maintenance
\* The retention of cleanup_token_logs (INTERVAL '30 days'), on the clock's
\* scale.
TOKEN_LOG_RETENTION == RetentionTicks

\* The rows the DELETE of cleanup_token_logs matches:
\* expires_at < NOW() - INTERVAL '30 days'
cleanup_token_logs_rows ==
    {n \in DOMAIN blind_token_log :
        blind_token_log[n].expires_at < now - TOKEN_LOG_RETENTION}

\* cleanup_token_logs(), run with the service role at any moment: one
\* DELETE in its own transaction; the rows of app_token_log that reference
\* a deleted entry go with it (ON DELETE CASCADE).
CleanupTokenLogs ==
    /\ cleanup_token_logs_rows # {}
    /\ blind_token_log' =
            [n \in (DOMAIN blind_token_log) \ cleanup_token_logs_rows |-> blind_token_log[n]]
    /\ app_token_log' =
            [n \in (DOMAIN app_token_log) \ cleanup_token_logs_rows |-> app_token_log[n]]
    /\ UNCHANGED <<now, passkey, user_profiles, registered_apps, user_app_connections,
                   rate_limits, audit_logs, credentials, req, started, minted, issued>>

\* ------------------------------------------------- passkey-auth handler
\* CHALLENGE_EXPIRY_MS and RATE_LIMIT of the shared WebAuthn configuration,
\* on the clock's scale (5, 15 and 5 minutes).
CHALLENGE_EXPIRY_MS == FiveMinuteTicks
MAX_FAILED_ATTEMPTS == 5
LOCKOUT_DURATION_MS == 3 * FiveMinuteTicks
ATTEMPT_WINDOW_MS == FiveMinuteTicks

\* user_passkeys: the active credentials and their users (no handler of the
\* model changes it).
user_passkeys == ("cred-u1" :> "u1") @@ ("cred-u2" :> "u2")
UnknownCredential == "cred-x"
CredentialIds == DOMAIN user_passkeys \cup {UnknownCredential}

\* A response of the passkey handlers: the slot keeps what the request
\* presented.
PkRespond(r, status, body) ==
    [Respond(r, status, body) EXCEPT !.ip = r.ip, !.cred = r.cred, !.key = r.key,
                                     !.stored = r.stored]

\* audit_logs.insert of the passkey handlers: the row carries the client's
\* address and created_at = NOW().
PasskeyEvent(u, action, ip, success) ==
    [user_id |-> u, action |-> action, action_category |-> "auth", app |-> "",
     success |-> success, ip_address |-> ip, created_at |-> now]

\* The 'passkey_auth_failed' rows of an identifier (its ip_address; the
\* credential_id of the metadata is no address and matches none).
FailedAttempts(identifier) ==
    {e \in BagToSet(audit_logs) :
        e.action = "passkey_auth_failed" /\ e.ip_address = identifier}

RECURSIVE MaxOf(_)
MaxOf(S) ==
    LET x == CHOOSE y \in S : TRUE
    IN IF S = {x} THEN x ELSE Max(x, MaxOf(S \ {x}))

\* checkRateLimit(supabase, identifier): count the failed attempts with
\* created_at >= now - ATTEMPT_WINDOW_MS; at MAX_FAILED_ATTEMPTS or more,
\* refuse while now < created_at of the most recent failed attempt +
\* LOCKOUT_DURATION_MS.  (Both queries only read; they are taken together.)
checkRateLimit(identifier) ==
    LET windowStart == now - ATTEMPT_WINDOW_MS
        count == SumOver(audit_logs,
                         {e \in FailedAttempts(identifier) : e.created_at >= windowStart})
        lockoutEnd == MaxOf({e.created_at : e \in FailedAttempts(identifier)})
                        + LOCKOUT_DURATION_MS
    IN IF count >= MAX_FAILED_ATTEMPTS /\ now < lockoutEnd
       THEN [allowed |-> FALSE, retryAfter |-> lockoutEnd - now]
       ELSE [allowed |-> TRUE, retryAfter |-> 0]

TooManyAttempts(retryAfter) ==
    [error |-> "Too many failed attempts", retry_after |-> retryAfter]

\* GET /passkey-auth?credential_id= from address ip ("" : no credential_id).
PkStartChallenge(s, ip, cred, budget) ==
    /\ Admit(s, budget)
    /\ req' = [req EXCEPT ![s] =
            [IdleReq EXCEPT !.op = "pk_challenge", !.pc = "pk_cleanup", !.ip = ip,
                            !.cred = cred]]
    /\ started' = started + 1
    /\ UNCHANGED <<now, db, passkey, minted, issued>>

\* POST /passkey-auth from address ip, with challenge_key key and the
\* assertion of credential cred; kind "invalid": a body without them.
PkStartVerify(s, ip, key, cred, kind, budget) ==
    /\ Admit(s, budget)
    /\ req' = [req EXCEPT ![s] =
            [IdleReq EXCEPT !.op = "pk_verify", !.pc = "pk_cleanup", !.ip = ip,
                            !.key = key, !.cred = cred, !.kind = kind]]
    /\ started' = started + 1
    /\ UNCHANGED <<now, db, passkey, minted, issued>>

\* cleanupExpiredChallenges: DELETE ... WHERE expires_at < now, errors
\* ignored; then the handler validates what the request carries.
PkCleanup(s, err) ==
    /\ req[s].pc = "pk_cleanup"
    /\
        LET r == req[s]
            expired == {k \in DOMAIN passkey_challenges :
                            passkey_challenges[k].expires_at < now}
        IN /\ passkey_challenges' =
                IF err THEN passkey_challenges
                ELSE [k \in (DOMAIN passkey_challenges) \ expired |-> passkey_challenges[k]]
           /\ req' = [req EXCEPT ![s] =
                IF r.op = "pk_challenge" /\ r.cred = ""
                THEN PkRespond(r, 400, [error |-> "Credential ID is required"])
                ELSE IF r.op = "pk_verify" /\ r.kind = "invalid"
                THEN PkRespond(r, 400, [error |-> "Challenge key is required"])
                ELSE [r EXCEPT !.pc = "pk_rate"]]
    /\ UNCHANGED <<now, db, pk_verified, started, minted, issued>>

\* Check rate limit before processing; a failed check allows the request.
PkRate(s, err) ==
    /\ req[s].pc = "pk_rate"
    /\
        LET r == req[s]
            rateCheck == IF err THEN [allowed |-> TRUE, retryAfter |-> 0]
                         ELSE checkRateLimit(r.ip)
        IN req' = [req EXCEPT ![s] =
                IF ~rateCheck.allowed
                THEN PkRespond(r, 429, TooManyAttempts(rateCheck.retryAfter))
                ELSE [r EXCEPT !.pc = IF r.op = "pk_challenge" THEN "pk_issue"
                                      ELSE "pk_lookup"]]
    /\ UNCHANGED <<now, db, passkey, started, minted, issued>>

\* handleGetChallenge: look the credential up, generate the options and
\* store the challenge under challengeKey = credentialId ":" Date.now() (the
\* milliseconds are the request's admission number here); err: the INSERT
\* fails, as it does on a key that exists (UNIQUE).
PkIssue(s, err) ==
    /\ req[s].pc = "pk_issue"
    /\
        LET r == req[s]
            challengeKey == <<r.cred, started>>
        IN IF r.cred \notin DOMAIN user_passkeys
           THEN /\ req' = [req EXCEPT ![s] = PkRespond(r, 401, [error |-> "Invalid credential"])]
                /\ UNCHANGED passkey_challenges
           ELSE IF err \/ challengeKey \in DOMAIN passkey_challenges
           THEN /\ req' = [req EXCEPT ![s] =
                        PkRespond(r, 500, [error |-> "Failed to generate challenge"])]
                /\ UNCHANGED passkey_challenges
           ELSE /\ passkey_challenges' =
                    Extend(passkey_challenges, challengeKey,
                           [user_id |-> user_passkeys[r.cred],
                            expires_at |-> now + CHALLENGE_EXPIRY_MS])
                /\ req' = [req EXCEPT ![s] =
                        PkRespond([r EXCEPT !.key = challengeKey], 200,
                                  [challenge_key |-> challengeKey])]
    /\ UNCHANGED <<now, db, pk_verified, started, minted, issued>>

\* handleVerifyAssertion: retrieve the challenge (SELECT ... single()).
PkLookup(s, err) ==
    /\ req[s].pc = "pk_lookup"
    /\
        LET r == req[s]
        IN req' = [req EXCEPT ![s] =
                IF err \/ r.key \notin DOMAIN passkey_challenges
                THEN PkRespond(r, 401, [error |-> "Challenge expired or not found"])
                ELSE [r EXCEPT !.pc = "pk_delete", !.stored = passkey_challenges[r.key]]]
    /\ UNCHANGED <<now, db, passkey, started, minted, issued>>

\* Remove the challenge (DELETE ... WHERE challenge_key =, its result not
\* read), then check the expiry of the row that was read.
PkDelete(s, err) ==
    /\ req[s].pc = "pk_delete"
    /\
        LET r == req[s]
        IN /\ passkey_challenges' =
                IF err THEN passkey_challenges
                ELSE [k \in (DOMAIN passkey_challenges) \ {r.key} |-> passkey_challenges[k]]
           /\ req' = [req EXCEPT ![s] =
                IF r.stored.expires_at < now
                THEN PkRespond(r, 401, [error |-> "Challenge has expired"])
                ELSE [r EXCEPT !.pc = "pk_cred"]]
    /\ UNCHANGED <<now, db, pk_verified, started, minted, issued>>

\* Look the credential of the assertion up and compare its user with the
\* challenge's; then the request goes to verifyAuthenticationResponse.
PkCredential(s, err) ==
    /\ req[s].pc = "pk_cred"
    /\
        LET r == req[s]
            found == ~err /\ r.cred \in DOMAIN user_passkeys
        IN IF ~found
           THEN /\ req' = [req EXCEPT ![s] =
                        [r EXCEPT !.pc = "pk_fail", !.user = r.stored.user_id,
                                  !.body = [error |-> "Passkey not found or has been revoked"]]]
                /\ UNCHANGED pk_verified
           ELSE IF user_passkeys[r.cred] # r.stored.user_id
           THEN /\ req' = [req EXCEPT ![s] =
                        [r EXCEPT !.pc = "pk_fail", !.user = user_passkeys[r.cred],
                                  !.body = [error |-> "Authentication failed"]]]
                /\ UNCHANGED pk_verified
           ELSE /\ req' = [req EXCEPT ![s] =
                        [r EXCEPT !.pc = "pk_sig", !.user = user_passkeys[r.cred]]]
                /\ pk_verified' = pk_verified (+)
                        SetToBag({[key |-> r.key, at |-> now,
                                   expires_at |-> r.stored.expires_at]})
    /\ UNCHANGED <<now, db, passkey_challenges, started, minted, issued>>

\* verifyAuthenticationResponse: verified tells whether the assertion's
\* signature over the stored challenge holds.
PkSignature(s, verified) ==
    /\ req[s].pc = "pk_sig"
    /\ req' = [req EXCEPT ![s] =
            IF verified
            THEN [req[s] EXCEPT !.pc = "pk_ok"]
            ELSE [req[s] EXCEPT !.pc = "pk_fail",
                                !.body = [error |-> "Biometric verification failed"]]]
    /\ UNCHANGED <<now, db, passkey, started, minted, issued>>

\* Log failed attempt for rate limiting (the result of the insert is not
\* read), then the 401.
PkFailed(s, err) ==
    /\ req[s].pc = "pk_fail"
    /\
        LET r == req[s]
        IN /\ audit_logs' = IF err THEN audit_logs
                            ELSE LogAudit(PasskeyEvent(r.user, "passkey_auth_failed", r.ip, FALSE))
           /\ req' = [req EXCEPT ![s] = PkRespond(r, 401, r.body)]
    /\ UNCHANGED <<now, passkey, user_profiles, registered_apps, user_app_connections,
                   rate_limits, blind_token_log, app_token_log, credentials,
                   started, minted, issued>>

\* The counter update, the verification token, the tier, the
\* 'passkey_authenticated' event and the 200.
PkAuthenticated(s, err) ==
    /\ req[s].pc = "pk_ok"
    /\
        LET r == req[s]
        IN /\ audit_logs' = IF err THEN audit_logs
                            ELSE LogAudit(PasskeyEvent(r.user, "passkey_authenticated", r.ip, TRUE))
           /\ req' = [req EXCEPT ![s] =
                    PkRespond(r, 200, [success |-> TRUE, user_id |-> r.user])]
    /\ UNCHANGED <<now, passkey, user_profiles, registered_apps, user_app_connections,
                   rate_limits, blind_token_log, app_token_log, credentials,
                   started, minted, issued>>

\* ------------------------------------------------------------------ Spec
\* The credentials a request may present, and the scope lists of a grant.
Callers == Users \cup {NoUser}
ScopeSets == {{"basic"}, {"basic", "email"}}

\* Token issuance and consent management, one request after the other in
\* slot 1.  The registry lookup and the connection check may fail; the
\* other datastore calls succeed here.
Next ==
    \/ Tick
    \/ \E cred \in Callers, a \in AppIds : StartIssue(1, cred, a, MaxRequests)
    \/ \E s \in Slots : IssueTier(s, FALSE)
    \/ \E s \in Slots, err \in BOOLEAN : IssueApp(s, err)
    \/ \E s \in Slots, err \in BOOLEAN : IssueConn(s, err)
    \/ \E s \in Slots : RateRead(s, FALSE)
    \/ \E s \in Slots : RateWrite(s, FALSE)
    \/ \E s \in Slots : IssueLog(s, FALSE)
    \/ \E s \in Slots : IssueAudit(s, FALSE)
    \/ \E cred \in Callers, a \in AppIds, sc \in ScopeSets : StartGrant(1, cred, a, sc, MaxRequests)
    \/ \E s \in Slots : GrantApp(s, FALSE)
    \/ \E s \in Slots : GrantSelect(s, FALSE)
    \/ \E s \in Slots : GrantWrite(s, FALSE)
    \/ \E cred \in Callers, a \in AppIds : StartUnconsent(1, cred, a, MaxRequests)
    \/ \E s \in Slots : Unconsent(s, FALSE)

Spec == Init /\ [][Next]_vars

\* Revocation, in a deployment whose registry does not hold the default
\* tenant: its tokens are issued and revoked, one request after the other in
\* slot 1.  The datastore calls succeed.
InitRevoke == Init /\ DefaultApp \notin DOMAIN registered_apps

NextRevoke ==
    \/ Tick
    \/ \E cred \in Users : StartIssue(1, cred, DefaultApp, MaxRevokeRequests)
    \/ \E s \in Slots : IssueTier(s, FALSE)
    \/ \E s \in Slots : IssueApp(s, FALSE)
    \/ \E s \in Slots : RateRead(s, FALSE)
    \/ \E s \in Slots : RateWrite(s, FALSE)
    \/ \E s \in Slots : IssueLog(s, FALSE)
    \/ \E s \in Slots : IssueAudit(s, FALSE)
    \/ \E cred \in Callers, n \in Nonces :
            StartRevoke(1, cred, "nonce", n, MaxRevokeRequests)
    \/ \E cred \in Users, kind \in RevokeKinds \ {"nonce"} :
            StartRevoke(1, cred, kind, UnknownNonce, MaxRevokeRequests)
    \/ \E s \in Slots : RevokeBody(s, FALSE)
    \/ \E s \in Slots : RevokeRpc(s, FALSE)
    \/ \E s \in Slots : RevokeAudit(s, FALSE)

SpecRevoke == InitRevoke /\ [][NextRevoke]_vars



\* The rate limiter under concurrent callers: token requests of the seeded
\* tenant run in both slots, their steps interleaved, after the consent that
\* lets them reach the limiter.  The datastore calls succeed.
NextRate ==
    \/ Tick
    \/ \E cred \in Users : StartGrant(1, cred, SeedApp, {"basic"}, MaxRequests)
    \/ \E s \in Slots : GrantApp(s, FALSE)
    \/ \E s \in Slots : GrantSelect(s, FALSE)
    \/ \E s \in Slots : GrantWrite(s, FALSE)
    \/ \E s \in Slots, cred \in Users : StartIssue(s, cred, SeedApp, MaxRequests)
    \/ \E s \in Slots : IssueTier(s, FALSE)
    \/ \E s \in Slots : IssueApp(s, FALSE)
    \/ \E s \in Slots : IssueConn(s, FALSE)
    \/ \E s \in Slots : RateRead(s, FALSE)
    \/ \E s \in Slots : RateWrite(s, FALSE)
    \/ \E s \in Slots : IssueLog(s, FALSE)
    \/ \E s \in Slots : IssueAudit(s, FALSE)

SpecRate == Init /\ [][NextRate]_vars

\* Registration: a tenant is registered, a user consents to it and asks for
\* its token, one request after the other in slot 1.  The datastore calls
\* succeed.
NextRegister ==
    \/ Tick
    \/ \E cred \in Callers \cup {AdminKey}, a \in {NewApp, SeedApp}, kind \in RegisterKinds :
            StartRegister(1, cred, a, kind, MaxRequests)
    \/ \E s \in Slots : RateRead(s, FALSE)
    \/ \E s \in Slots : RateWrite(s, FALSE)
    \/ \E s \in Slots : RegisterAuth(s, FALSE)
    \/ \E s \in Slots : RegisterExisting(s, FALSE)
    \/ \E s \in Slots : RegisterRpc(s, FALSE)
    \/ \E s \in Slots : RegisterAudit(s, FALSE)
    \/ \E cred \in Users : StartGrant(1, cred, NewApp, {"basic"}, MaxRequests)
    \/ \E s \in Slots : GrantApp(s, FALSE)
    \/ \E s \in Slots : GrantSelect(s, FALSE)
    \/ \E s \in Slots : GrantWrite(s, FALSE)
    \/ \E cred \in Users : StartIssue(1, cred, NewApp, MaxRequests)
    \/ \E s \in Slots : IssueTier(s, FALSE)
    \/ \E s \in Slots : IssueApp(s, FALSE)
    \/ \E s \in Slots : IssueConn(s, FALSE)
    \/ \E s \in Slots : IssueLog(s, FALSE)
    \/ \E s \in Slots : IssueAudit(s, FALSE)

SpecRegister == Init /\ [][NextRegister]_vars

\* The consent lifecycle of the seeded tenant: token requests, grants and
\* revocations of consent, one request after the other in slot 1.  The
\* datastore calls succeed.
NextConsent ==
    \/ Tick
    \/ \E cred \in Users : StartIssue(1, cred, SeedApp, MaxConsentRequests)
    \/ \E s \in Slots : IssueTier(s, FALSE)
    \/ \E s \in Slots : IssueApp(s, FALSE)
    \/ \E s \in Slots : IssueConn(s, FALSE)
    \/ \E s \in Slots : RateRead(s, FALSE)
    \/ \E s \in Slots : RateWrite(s, FALSE)
    \/ \E s \in Slots : IssueLog(s, FALSE)
    \/ \E s \in Slots : IssueAudit(s, FALSE)
    \/ \E cred \in Users, sc \in ScopeSets :
            StartGrant(1, cred, SeedApp, sc, MaxConsentRequests)
    \/ \E s \in Slots : GrantApp(s, FALSE)
    \/ \E s \in Slots : GrantSelect(s, FALSE)
    \/ \E s \in Slots : GrantWrite(s, FALSE)
    \/ \E cred \in Users : StartUnconsent(1, cred, SeedApp, MaxConsentRequests)
    \/ \E s \in Slots : Unconsent(s, FALSE)

SpecConsent == Init /\ [][NextConsent]_vars

\* Concurrent consent requests: grants and consent revocations of the users
\* for the registered tenant, two requests in flight at a time.
MaxGrantRequests == 4

NextGrant ==
    \/ Tick
    \/ \E s \in Slots, cred \in Users, sc \in ScopeSets :
            StartGrant(s, cred, SeedApp, sc, MaxGrantRequests)
    \/ \E s \in Slots : GrantApp(s, FALSE)
    \/ \E s \in Slots : GrantSelect(s, FALSE)
    \/ \E s \in Slots : GrantWrite(s, FALSE)
    \/ \E s \in Slots, cred \in Users : StartUnconsent(s, cred, SeedApp, MaxGrantRequests)
    \/ \E s \in Slots : Unconsent(s, FALSE)

SpecGrant == Init /\ [][NextGrant]_vars

\* Scopes: a user registers a tenant and may later change its row; users
\* grant consent to the tenants, one request after the other in slot 1.  The
\* datastore calls succeed.
MaxScopeRequests == 3

NextScopes ==
    \/ Tick
    \/ \E cred \in Users, kind \in RegisterKinds :
            StartRegister(1, cred, NewApp, kind, MaxScopeRequests)
    \/ \E s \in Slots : RateRead(s, FALSE)
    \/ \E s \in Slots : RateWrite(s, FALSE)
    \/ \E s \in Slots : RegisterAuth(s, FALSE)
    \/ \E s \in Slots : RegisterExisting(s, FALSE)
    \/ \E s \in Slots : RegisterRpc(s, FALSE)
    \/ \E s \in Slots : RegisterAudit(s, FALSE)
    \/ \E cred \in Users, a \in {SeedApp, NewApp}, sc \in ScopeSets :
            StartGrant(1, cred, a, sc, MaxScopeRequests)
    \/ \E s \in Slots : GrantApp(s, FALSE)
    \/ \E s \in Slots : GrantSelect(s, FALSE)
    \/ \E s \in Slots : GrantWrite(s, FALSE)
    \/ \E u \in Users, sc \in SUBSET Scopes, active \in BOOLEAN, verified \in BOOLEAN :
            OwnerUpdate(u, NewApp, sc, active, verified, MaxScopeRequests)

SpecScopes == Init /\ [][NextScopes]_vars

\* Suspension: token requests of users some of whom are suspended, after
\* their consent, one request after the other in slot 1.  The tier lookup
\* may fail; the other datastore calls succeed.
NextSuspend ==
    \/ Tick
    \/ \E cred \in Users : StartGrant(1, cred, SeedApp, {"basic"}, MaxRequests)
    \/ \E s \in Slots : GrantApp(s, FALSE)
    \/ \E s \in Slots : GrantSelect(s, FALSE)
    \/ \E s \in Slots : GrantWrite(s, FALSE)
    \/ \E cred \in Users : StartIssue(1, cred, SeedApp, MaxRequests)
    \/ \E s \in Slots, err \in BOOLEAN : IssueTier(s, err)
    \/ \E s \in Slots : IssueApp(s, FALSE)
    \/ \E s \in Slots : IssueConn(s, FALSE)
    \/ \E s \in Slots : RateRead(s, FALSE)
    \/ \E s \in Slots : RateWrite(s, FALSE)
    \/ \E s \in Slots : IssueLog(s, FALSE)
    \/ \E s \in Slots : IssueAudit(s, FALSE)

SpecSuspend == InitSuspend /\ [][NextSuspend]_vars

\* Deactivated tenants: an administrator deactivates tenants between the
\* requests of slot 1; token requests name the default tenant, the seeded
\* tenant or an unregistered one.  The registry lookup may fail; the other
\* datastore calls succeed.
NextInactive ==
    \/ Tick
    \/ \E a \in {DefaultApp, SeedApp} : ServiceDeactivate(a, MaxRequests)
    \/ \E cred \in Users : StartGrant(1, cred, SeedApp, {"basic"}, MaxRequests)
    \/ \E s \in Slots : GrantApp(s, FALSE)
    \/ \E s \in Slots : GrantSelect(s, FALSE)
    \/ \E s \in Slots : GrantWrite(s, FALSE)
    \/ \E cred \in Users, a \in {DefaultApp, SeedApp, NewApp} :
            StartIssue(1, cred, a, MaxRequests)
    \/ \E s \in Slots : IssueTier(s, FALSE)
    \/ \E s \in Slots, err \in BOOLEAN : IssueApp(s, err)
    \/ \E s \in Slots : IssueConn(s, FALSE)
    \/ \E s \in Slots : RateRead(s, FALSE)
    \/ \E s \in Slots : RateWrite(s, FALSE)
    \/ \E s \in Slots : IssueLog(s, FALSE)
    \/ \E s \in Slots : IssueAudit(s, FALSE)

SpecInactive == Init /\ [][NextInactive]_vars

\* The ledger under failing writes: consent and token requests for the
\* seeded tenant, one request after the other in slot 1.  The call that logs
\* the issuance may fail; the other datastore calls succeed.
NextLedger ==
    \/ Tick
    \/ \E cred \in Users : StartGrant(1, cred, SeedApp, {"basic"}, MaxRequests)
    \/ \E s \in Slots : GrantApp(s, FALSE)
    \/ \E s \in Slots : GrantSelect(s, FALSE)
    \/ \E s \in Slots : GrantWrite(s, FALSE)
    \/ \E cred \in Users : StartIssue(1, cred, SeedApp, MaxRequests)
    \/ \E s \in Slots : IssueTier(s, FALSE)
    \/ \E s \in Slots : IssueApp(s, FALSE)
    \/ \E s \in Slots : IssueConn(s, FALSE)
    \/ \E s \in Slots : RateRead(s, FALSE)
    \/ \E s \in Slots : RateWrite(s, FALSE)
    \/ \E s \in Slots, err \in BOOLEAN : IssueLog(s, err)
    \/ \E s \in Slots : IssueAudit(s, FALSE)

SpecLedger == Init /\ [][NextLedger]_vars

\* The usage counters under concurrent callers: token requests, grants and
\* revocations of consent for the seeded tenant run in both slots, their
\* steps interleaved.  The datastore calls succeed.
NextCounters ==
    \/ Tick
    \/ \E s \in Slots, cred \in Users : StartGrant(s, cred, SeedApp, {"basic"}, MaxRequests)
    \/ \E s \in Slots : GrantApp(s, FALSE)
    \/ \E s \in Slots : GrantSelect(s, FALSE)
    \/ \E s \in Slots : GrantWrite(s, FALSE)
    \/ \E s \in Slots, cred \in Users : StartUnconsent(s, cred, SeedApp, MaxRequests)
    \/ \E s \in Slots : Unconsent(s, FALSE)
    \/ \E s \in Slots, cred \in Users : StartIssue(s, cred, SeedApp, MaxRequests)
    \/ \E s \in Slots : IssueTier(s, FALSE)
    \/ \E s \in Slots : IssueApp(s, FALSE)
    \/ \E s \in Slots : IssueConn(s, FALSE)
    \/ \E s \in Slots : RateRead(s, FALSE)
    \/ \E s \in Slots : RateWrite(s, FALSE)
    \/ \E s \in Slots : IssueLog(s, FALSE)
    \/ \E s \in Slots : IssueAudit(s, FALSE)

SpecCounters == Init /\ [][NextCounters]_vars

\* The audit trail: grants and revocations of consent, token requests and
\* token revocations for the seeded tenant, one request after the other in
\* slot 1.  The datastore calls succeed, the audit writes included.
NextAudit ==
    \/ Tick
    \/ \E cred \in Users : StartGrant(1, cred, SeedApp, {"basic"}, MaxRevokeRequests)
    \/ \E s \in Slots : GrantApp(s, FALSE)
    \/ \E s \in Slots : GrantSelect(s, FALSE)
    \/ \E s \in Slots : GrantWrite(s, FALSE)
    \/ \E cred \in Users : StartUnconsent(1, cred, SeedApp, MaxRevokeRequests)
    \/ \E s \in Slots : Unconsent(s, FALSE)
    \/ \E cred \in Users : StartIssue(1, cred, SeedApp, MaxRevokeRequests)
    \/ \E s \in Slots : IssueTier(s, FALSE)
    \/ \E s \in Slots : IssueApp(s, FALSE)
    \/ \E s \in Slots : IssueConn(s, FALSE)
    \/ \E s \in Slots : RateRead(s, FALSE)
    \/ \E s \in Slots : RateWrite(s, FALSE)
    \/ \E s \in Slots : IssueLog(s, FALSE)
    \/ \E s \in Slots : IssueAudit(s, FALSE)
    \/ \E cred \in Users, kind \in {"nonce", "all"}, nonce \in Nonces :
            StartRevoke(1, cred, kind, nonce, MaxRevokeRequests)
    \/ \E s \in Slots : RevokeBody(s, FALSE)
    \/ \E s \in Slots : RevokeRpc(s, FALSE)
    \/ \E s \in Slots : RevokeAudit(s, FALSE)

SpecAudit == Init /\ [][NextAudit]_vars

\* The audit store failing: the requests of NextAudit (revoke-all for the
\* token revocations), where every write of an audit event may fail and
\* every other datastore call succeeds.
NextAuditFault ==
    \/ Tick
    \/ \E cred \in Users : StartGrant(1, cred, SeedApp, {"basic"}, MaxRevokeRequests)
    \/ \E s \in Slots : GrantApp(s, FALSE)
    \/ \E s \in Slots : GrantSelect(s, FALSE)
    \/ \E s \in Slots, auditErr \in BOOLEAN : GrantCommit(s, FALSE, auditErr)
    \/ \E cred \in Users : StartUnconsent(1, cred, SeedApp, MaxRevokeRequests)
    \/ \E s \in Slots, auditErr \in BOOLEAN : UnconsentCommit(s, FALSE, auditErr)
    \/ \E cred \in Users : StartIssue(1, cred, SeedApp, MaxRevokeRequests)
    \/ \E s \in Slots : IssueTier(s, FALSE)
    \/ \E s \in Slots : IssueApp(s, FALSE)
    \/ \E s \in Slots : IssueConn(s, FALSE)
    \/ \E s \in Slots : RateRead(s, FALSE)
    \/ \E s \in Slots : RateWrite(s, FALSE)
    \/ \E s \in Slots : IssueLog(s, FALSE)
    \/ \E s \in Slots, auditErr \in BOOLEAN : IssueAudit(s, auditErr)
    \/ \E cred \in Users : StartRevoke(1, cred, "all", UnknownNonce, MaxRevokeRequests)
    \/ \E s \in Slots : RevokeBody(s, FALSE)
    \/ \E s \in Slots, auditErr \in BOOLEAN : RevokeAudit(s, auditErr)

SpecAuditFault == Init /\ [][NextAuditFault]_vars

\* The rate limiter unavailable: every check_rate_limit call fails, every
\* other datastore call succeeds; consent, token requests and revocations
\* for the seeded tenant, one request after the other in slot 1.
NextRateDown ==
    \/ Tick
    \/ \E cred \in Users : StartGrant(1, cred, SeedApp, {"basic"}, MaxRequests)
    \/ \E s \in Slots : GrantApp(s, FALSE)
    \/ \E s \in Slots : GrantSelect(s, FALSE)
    \/ \E s \in Slots : GrantWrite(s, FALSE)
    \/ \E cred \in Users : StartIssue(1, cred, SeedApp, MaxRequests)
    \/ \E s \in Slots : IssueTier(s, FALSE)
    \/ \E s \in Slots : IssueApp(s, FALSE)
    \/ \E s \in Slots : IssueConn(s, FALSE)
    \/ \E s \in Slots : RateRead(s, TRUE)
    \/ \E s \in Slots : IssueLog(s, FALSE)
    \/ \E s \in Slots : IssueAudit(s, FALSE)
    \/ \E cred \in Users, kind \in {"nonce", "all"}, nonce \in Nonces :
            StartRevoke(1, cred, kind, nonce, MaxRequests)
    \/ \E s \in Slots : RevokeBody(s, FALSE)
    \/ \E s \in Slots : RevokeRpc(s, FALSE)
    \/ \E s \in Slots : RevokeAudit(s, FALSE)

SpecRateDown == Init /\ [][NextRateDown]_vars

\* Concurrent registrations: users register the same tenant id, two requests
\* in flight at a time.  The datastore calls succeed.
MaxRegisterRequests == 3

NextRegisterRace ==
    \/ Tick
    \/ \E s \in Slots, cred \in Users :
            StartRegister(s, cred, NewApp, "valid", MaxRegisterRequests)
    \/ \E s \in Slots : RateRead(s, FALSE)
    \/ \E s \in Slots : RateWrite(s, FALSE)
    \/ \E s \in Slots : RegisterAuth(s, FALSE)
    \/ \E s \in Slots : RegisterExisting(s, FALSE)
    \/ \E s \in Slots : RegisterRpc(s, FALSE)
    \/ \E s \in Slots : RegisterAudit(s, FALSE)

SpecRegisterRace == Init /\ [][NextRegisterRace]_vars

\* The quota under concurrent registrations: users register new tenant ids,
\* two requests in flight at a time, u1 one tenant short of the quota.  The
\* datastore calls succeed.
NextQuota ==
    \/ Tick
    \/ \E s \in Slots, cred \in Users, a \in {NewApp, OtherApp} :
            StartRegister(s, cred, a, "valid", MaxRegisterRequests)
    \/ \E s \in Slots : RateRead(s, FALSE)
    \/ \E s \in Slots : RateWrite(s, FALSE)
    \/ \E s \in Slots : RegisterAuth(s, FALSE)
    \/ \E s \in Slots : RegisterExisting(s, FALSE)
    \/ \E s \in Slots : RegisterRpc(s, FALSE)
    \/ \E s \in Slots : RegisterAudit(s, FALSE)

SpecQuota == InitQuota /\ [][NextQuota]_vars

\* Token lifetimes: an administrator sets the seeded tenant's
\* token_expiry_seconds between the requests of slot 1; users consent and
\* ask for tokens.  The datastore calls succeed.
MaxExpiry == 2

NextExpiry ==
    \/ Tick
    \/ \E ttl \in 0..MaxExpiry : ServiceSetExpiry(SeedApp, ttl, MaxRequests)
    \/ \E cred \in Users : StartGrant(1, cred, SeedApp, {"basic"}, MaxRequests)
    \/ \E s \in Slots : GrantApp(s, FALSE)
    \/ \E s \in Slots : GrantSelect(s, FALSE)
    \/ \E s \in Slots : GrantWrite(s, FALSE)
    \/ \E cred \in Users : StartIssue(1, cred, SeedApp, MaxRequests)
    \/ \E s \in Slots : IssueTier(s, FALSE)
    \/ \E s \in Slots : IssueApp(s, FALSE)
    \/ \E s \in Slots : IssueConn(s, FALSE)
    \/ \E s \in Slots : RateRead(s, FALSE)
    \/ \E s \in Slots : RateWrite(s, FALSE)
    \/ \E s \in Slots : IssueLog(s, FALSE)
    \/ \E s \in Slots : IssueAudit(s, FALSE)

SpecExpiry == Init /\ [][NextExpiry]_vars

\* The order of the issuer's checks: callers with and without a credential,
\* suspended or not, ask for tokens of the seeded tenant (which an
\* administrator may deactivate between requests) and of an unregistered
\* one, one request after the other in slot 1.  The datastore calls succeed.
NextOrder ==
    \/ Tick
    \/ ServiceDeactivate(SeedApp, MaxRequests)
    \/ \E cred \in Users : StartGrant(1, cred, SeedApp, {"basic"}, MaxRequests)
    \/ \E s \in Slots : GrantApp(s, FALSE)
    \/ \E s \in Slots : GrantSelect(s, FALSE)
    \/ \E s \in Slots : GrantWrite(s, FALSE)
    \/ \E cred \in Callers, a \in {SeedApp, NewApp} : StartIssue(1, cred, a, MaxRequests)
    \/ \E s \in Slots : IssueTier(s, FALSE)
    \/ \E s \in Slots : IssueApp(s, FALSE)
    \/ \E s \in Slots : IssueConn(s, FALSE)
    \/ \E s \in Slots : RateRead(s, FALSE)
    \/ \E s \in Slots : RateWrite(s, FALSE)
    \/ \E s \in Slots : IssueLog(s, FALSE)
    \/ \E s \in Slots : IssueAudit(s, FALSE)

SpecOrder == InitSuspend /\ [][NextOrder]_vars

\* The life of a ledger entry: tokens of the seeded tenant (short-lived) and
\* of the default tenant of a registry that does not hold it are issued,
\* revoked one by one or all at once, and purged: the requests of one
\* user, one after the other in slot 1, with the purge at any moment.  The
\* datastore calls succeed.
NextPurge ==
    \/ Tick
    \/ CleanupTokenLogs
    \/ \E cred \in {"u1"} : StartGrant(1, cred, SeedApp, {"basic"}, MaxConsentRequests)
    \/ \E s \in Slots : GrantApp(s, FALSE)
    \/ \E s \in Slots : GrantSelect(s, FALSE)
    \/ \E s \in Slots : GrantWrite(s, FALSE)
    \/ \E cred \in {"u1"}, a \in {SeedApp, DefaultApp} :
            StartIssue(1, cred, a, MaxConsentRequests)
    \/ \E s \in Slots : IssueTier(s, FALSE)
    \/ \E s \in Slots : IssueApp(s, FALSE)
    \/ \E s \in Slots : IssueConn(s, FALSE)
    \/ \E s \in Slots : RateRead(s, FALSE)
    \/ \E s \in Slots : RateWrite(s, FALSE)
    \/ \E s \in Slots : IssueLog(s, FALSE)
    \/ \E s \in Slots : IssueAudit(s, FALSE)
    \/ \E cred \in {"u1"}, kind \in {"nonce", "all"}, nonce \in Nonces :
            StartRevoke(1, cred, kind, nonce, MaxConsentRequests)
    \/ \E s \in Slots : RevokeBody(s, FALSE)
    \/ \E s \in Slots : RevokeRpc(s, FALSE)
    \/ \E s \in Slots : RevokeAudit(s, FALSE)

SpecPurge == InitRevoke /\ [][NextPurge]_vars

\* Concurrent revocations: tokens of the default tenant are issued, and
\* revoke requests naming the nonce of a token that was handed out run in
\* both slots, their steps interleaved.  No datastore call fails for a
\* reason of its own; no request gets to the audit step of the handler,
\* because revoke_blind_token raises and no entry is revoked beforehand.
NextRevokeRace ==
    \/ Tick
    \/ \E cred \in Users : StartIssue(1, cred, DefaultApp, MaxRequests)
    \/ \E s \in Slots : IssueTier(s, FALSE)
    \/ \E s \in Slots : IssueApp(s, FALSE)
    \/ \E s \in Slots : RateRead(s, FALSE)
    \/ \E s \in Slots : RateWrite(s, FALSE)
    \/ \E s \in Slots : IssueLog(s, FALSE)
    \/ \E s \in Slots : IssueAudit(s, FALSE)
    \/ \E s \in Slots, cred \in Users, n \in DOMAIN issued :
            StartRevoke(s, cred, "nonce", n, MaxRequests)
    \/ \E s \in Slots : RevokeBody(s, FALSE)
    \/ \E s \in Slots : RevokeRpc(s, FALSE)

SpecRevokeRace == InitRevoke /\ [][NextRevokeRace]_vars

\* Passkey challenges under concurrent callers: a client at one address
\* asks for challenges of a credential and presents the keys it was given
\* (once, or again after their use), with assertions
\* whose signature holds or not, two requests in flight at a time.  The
\* cleanup of expired challenges may fail; the other datastore calls
\* succeed.
MaxPasskeyRequests == 4
ChallengeKeys == {<<"cred-u1", n>> : n \in 0..MaxPasskeyRequests}

\* The challenge keys a client can hold: those stored, and those used.
HandedOut ==
    (DOMAIN passkey_challenges) \cup {e.key : e \in BagToSet(pk_verified)}

NextChallenge ==
    \/ Tick
    \/ \E s \in Slots : PkStartChallenge(s, ClientIp, "cred-u1", MaxPasskeyRequests)
    \/ \E s \in Slots, key \in ChallengeKeys :
            /\ key \in HandedOut
            /\ PkStartVerify(s, ClientIp, key, "cred-u1", "valid", MaxPasskeyRequests)
    \/ \E s \in Slots, err \in BOOLEAN : PkCleanup(s, err)
    \/ \E s \in Slots : PkRate(s, FALSE)
    \/ \E s \in Slots : PkIssue(s, FALSE)
    \/ \E s \in Slots : PkLookup(s, FALSE)
    \/ \E s \in Slots : PkDelete(s, FALSE)
    \/ \E s \in Slots : PkCredential(s, FALSE)
    \/ \E s \in Slots, verified \in BOOLEAN : PkSignature(s, verified)
    \/ \E s \in Slots : PkFailed(s, FALSE)
    \/ \E s \in Slots : PkAuthenticated(s, FALSE)

SpecChallenge == Init /\ [][NextChallenge]_vars

\* Lockout: one client address sends challenge and verification requests
\* one after the other (one slot), asking for a challenge while it holds
\* fewer than MaxHeld; every assertion names a credential with no row, so
\* every verification that finds its challenge fails.  Every query
\* succeeds.
MaxLockoutRequests == 11
MaxHeld == 2
LockoutKeys == {<<"cred-u1", n>> : n \in 0..MaxLockoutRequests}

NextLockout ==
    \/ Tick
    \/ /\ Cardinality(DOMAIN passkey_challenges) < MaxHeld
       /\ PkStartChallenge(1, ClientIp, "cred-u1", MaxLockoutRequests)
    \/ \E key \in LockoutKeys :
            /\ key \in DOMAIN passkey_challenges
            /\ PkStartVerify(1, ClientIp, key, UnknownCredential, "valid",
                             MaxLockoutRequests)
    \/ PkCleanup(1, FALSE)
    \/ PkRate(1, FALSE)
    \/ PkIssue(1, FALSE)
    \/ PkLookup(1, FALSE)
    \/ PkDelete(1, FALSE)
    \/ PkCredential(1, FALSE)
    \/ PkFailed(1, FALSE)

SpecLockout == Init /\ [][NextLockout]_vars

\* ================================================================= claims
Email(u) == u \o "@example.com"

IssuedFor(u, a) == {n \in DOMAIN issued : issued[n].user = u /\ issued[n].app = a}

\* The tokens issued to (u, a) in the window of length w that ends at time t.
IssuedInWindow(u, a, t, w) ==
    {n \in IssuedFor(u, a) : issued[n].at <= t /\ issued[n].at > t - w}

\* C1: no token is issued to user u for tenant t unless the consent row of
\* (u, t) was Active while the request was processed -- for every tenant,
\* the reserved default tenant included, and also when the registry lookup
\* returns nothing or fails.
C1_IssuedOnlyWithConsent == \A n \in DOMAIN issued : issued[n].saw

\* C2: a token request by an authenticated caller that names a registered
\* tenant for which the caller has no consent row is rejected (never answered
\* with a token), whatever the tenant's is_verified flag.
C2_NoConsentRowRejected ==
    \A s \in Slots :
        (/\ req[s].pc = "done" /\ req[s].op = "issue" /\ req[s].user \in Users
         /\ req[s].app \in DOMAIN registered_apps
         /\ ConnRows(req[s].user, req[s].app) = {})
        => req[s].status # 200

\* C4: for the token requests of one user for one registered tenant with
\* limit max_requests, a request is answered 429 only when max_requests
\* tokens were issued within the window, and no window of the limiter's
\* length holds more than max_requests issued tokens (the (max_requests+1)-th
\* request within the window fails).
C4_LimitPerWindow ==
    /\ \A s \in Slots :
        (/\ req[s].pc = "done" /\ req[s].op = "issue" /\ req[s].status = 429
         /\ req[s].app \in DOMAIN registered_apps)
        => Cardinality(IssuedInWindow(req[s].user, req[s].app, req[s].vnow,
                                      DEFAULT_RATE_LIMIT_WINDOW))
             >= registered_apps[req[s].app].rate_limit_tokens_per_hour
    /\ \A n \in DOMAIN issued :
        issued[n].app \in DOMAIN registered_apps
        => Cardinality(IssuedInWindow(issued[n].user, issued[n].app, issued[n].at,
                                      DEFAULT_RATE_LIMIT_WINDOW))
             <= registered_apps[issued[n].app].rate_limit_tokens_per_hour

\* C5: a token issued for tenant t1 never verifies under the signing secret
\* derived for another tenant t2 (either may be the reserved default tenant).
C5_NoCrossTenantVerify ==
    \A n \in DOMAIN issued :
        /\ VerifySignature(issued[n].token, getAppSigningSecret(issued[n].app))
        /\ \A t2 \in AppIds \ {issued[n].app} :
            ~VerifySignature(issued[n].token, getAppSigningSecret(t2))

C5_Witness ==
    \E n1 \in DOMAIN issued, n2 \in DOMAIN issued :
        issued[n1].app = DefaultApp /\ issued[n2].app = SeedApp

\* The secrets whose hashes the tenant registry stores.
StoredSecrets == {registered_apps[a].shared_secret_hash.bcrypt : a \in DOMAIN registered_apps}

PayloadOf(token) == token.payloadB64.b64

\* C8: every issued payload has exactly the fields iat, exp, tier, nonce,
\* app, v; the response has exactly the token, its expiry, the tier and the
\* tenant; none of their fields is the caller's id or email; and the token
\* and the response are the ones any other caller with the same tier,
\* tenant, time and nonce would have got.
C8_NoIdentityInToken ==
    \A n \in DOMAIN issued :
        LET i == issued[n]
            p == PayloadOf(i.token)
        IN /\ DOMAIN p = {"iat", "exp", "tier", "nonce", "app", "v"}
           /\ DOMAIN i.body = {"blind_token", "expires_at", "tier", "app"}
           /\ \A u \in Users :
                /\ {p.tier, p.app, i.body.tier, i.body.app} \cap {u, Email(u)} = {}
                /\ LET gen == generateBlindToken(i.tier, i.app, p.exp - p.iat, p.v,
                                                 i.secret, p.iat, p.nonce, u)
                   IN /\ gen.token = i.token
                      /\ IssueResponse(gen.token, gen.payload, i.tier, i.app) = i.body

C8_Witness ==
    \E n1 \in DOMAIN issued, n2 \in DOMAIN issued :
        /\ issued[n1].user # issued[n2].user
        /\ issued[n1].tier = issued[n2].tier /\ issued[n1].app = issued[n2].app

\* ---- revocation
\* C9: revoking a nonce is idempotent.  A revoke request for a nonce of the
\* caller that it answers with 200 leaves the nonce revoked, whichever revoke
\* it is; and a revoke request that meets an entry of its caller already
\* revoked changes nothing in the ledger (revoked_at and revocation_reason
\* stay as the first revoke set them) and is answered, if at this step, with
\* 200, success and revoked_count 0.
C9_Revoked ==
    \A s \in Slots :
        (req[s].op = "revoke" /\ req[s].kind = "nonce" /\ req[s].pc = "done"
            /\ req[s].status = 200)
        => /\ is_token_revoked(req[s].nonce)
           /\ blind_token_log[req[s].nonce].revoked_at <= req[s].vnow
           /\ blind_token_log[req[s].nonce].revocation_reason
                \in {"user_revocation", "user_revoke_all"}

C9_SecondRevoke ==
    \A s \in Slots :
        (/\ req[s].op = "revoke" /\ req[s].kind = "nonce"
         /\ req[s].pc \in {"rv_body", "rv_rpc"}
         /\ req[s].nonce \in DOMAIN blind_token_log
         /\ blind_token_log[req[s].nonce].user_id = req[s].user
         /\ blind_token_log[req[s].nonce].revoked_at # NullTime
         /\ req'[s] # req[s])
        => /\ blind_token_log' = blind_token_log
           /\ req'[s].pc = "rv_audit" => req'[s].rcount = 0
           /\ req'[s].pc = "done" =>
                /\ req'[s].status = 200
                /\ req'[s].body.success
                /\ req'[s].body.revoked_count = 0

\* The 200 of a revoke request reports the count its update returned.
C9_Reported ==
    \A s \in Slots :
        (req[s].op = "revoke" /\ req[s].pc = "rv_audit" /\ req'[s] # req[s])
        => /\ req'[s].status = 200
           /\ req'[s].body.success
           /\ req'[s].body.revoked_count = req[s].rcount

C9_FirstRevoke ==
    \A s \in Slots :
        (/\ req[s].op = "revoke" /\ req[s].kind = "nonce" /\ req[s].pc = "rv_rpc"
         /\ blind_token_log[req[s].nonce].revoked_at = NullTime
         /\ req'[s] # req[s])
        => /\ blind_token_log'[req[s].nonce].revoked_at = now
           /\ blind_token_log'[req[s].nonce].revocation_reason = "user_revocation"
           /\ req'[s].rcount = 1

C9_RevokeIdempotent ==
    /\ []C9_Revoked
    /\ [][C9_SecondRevoke /\ C9_FirstRevoke /\ C9_Reported]_vars

\* C10: revoke_all of user u marks every entry of u that is unexpired and
\* unrevoked at that moment as revoked, changes no other entry, and reports
\* the number of entries it revoked.
C10_Hit(u) ==
    {n \in DOMAIN blind_token_log :
        /\ blind_token_log[n].user_id = u
        /\ blind_token_log[n].revoked_at = NullTime
        /\ blind_token_log[n].expires_at > now}

C10_Rows(s) ==
    /\ DOMAIN blind_token_log' = DOMAIN blind_token_log
    /\ \A n \in DOMAIN blind_token_log :
            IF n \in C10_Hit(req[s].user)
            THEN /\ blind_token_log'[n].revoked_at = now
                 /\ blind_token_log'[n].user_id = req[s].user
            ELSE blind_token_log'[n] = blind_token_log[n]

C10_Step(s) ==
    /\ C10_Rows(s)
    /\ req'[s].rcount = Cardinality(C10_Hit(req[s].user))

C10_RevokeAllFrame ==
    [][\A s \in Slots :
        (req[s].op = "revoke" /\ req[s].kind = "all" /\ req[s].pc = "rv_body"
            /\ req'[s].pc = "rv_audit")
        => C10_Step(s)]_vars

C10_RowsOnly ==
    [][\A s \in Slots :
        (req[s].op = "revoke" /\ req[s].kind = "all" /\ req[s].pc = "rv_body"
            /\ req'[s].pc = "rv_audit")
        => C10_Rows(s)]_vars

\* ---- rate limiter
\* C3: whatever the interleaving of concurrent callers sharing (identifier,
\* action), the calls allowed within the window are never more than
\* max_requests: the counts of the buckets of the window, one per allowed
\* call, never add up to more than the tenant's limit.
C3_NeverOverLimit ==
    \A u \in Users, a \in DOMAIN registered_apps :
        RateWindowCount(u \o ":" \o a, "blind_token", now, DEFAULT_RATE_LIMIT_WINDOW)
            <= OrDefault(registered_apps[a].rate_limit_tokens_per_hour,
                         DEFAULT_RATE_LIMIT_MAX)

\* ---- registration
\* C7: the shared_secret returned at the registration of a tenant is the
\* secret its blind tokens are signed with: every token issued for a
\* registered tenant verifies under the credential register returned for it.
C7_TokensVerifyUnderCredential ==
    \A n \in DOMAIN issued :
        issued[n].app \in DOMAIN credentials
            => VerifySignature(issued[n].token, credentials[issued[n].app])

\* C11: a revoke request for a nonce that the ledger does not hold, or that
\* belongs to another user than the caller, is answered with 404 and leaves
\* the ledger as it is; and whenever an entry becomes revoked, the step is
\* one of a revoke request of the entry's owner.
C11_Foreign(s) ==
    /\ req[s].op = "revoke" /\ req[s].kind = "nonce" /\ req[s].pc = "rv_body"
    /\ \/ req[s].nonce \notin DOMAIN blind_token_log
       \/ blind_token_log[req[s].nonce].user_id # req[s].user

C11_ForeignRevokeRejected ==
    [][/\ \A s \in Slots :
            (C11_Foreign(s) /\ req'[s] # req[s])
            => /\ req'[s].pc = "done" /\ req'[s].status = 404
               /\ blind_token_log' = blind_token_log
       /\ \A n \in DOMAIN blind_token_log :
            (blind_token_log[n].revoked_at = NullTime
                /\ blind_token_log'[n].revoked_at # NullTime)
            => \E s \in Slots :
                    /\ req[s].op = "revoke" /\ ~Free(s)
                    /\ req[s].user = blind_token_log[n].user_id]_vars

\* C11 witness: a revoke of another user's token has been answered with 404.
C11_Witness ==
    \E s \in Slots :
        /\ req[s].op = "revoke" /\ req[s].kind = "nonce" /\ req[s].pc = "done"
        /\ req[s].status = 404
        /\ req[s].nonce \in DOMAIN blind_token_log
        /\ blind_token_log[req[s].nonce].user_id # req[s].user
        /\ blind_token_log[req[s].nonce].revoked_at = NullTime

\* ---- consent lifecycle
C12_OriginRejected(r) == r.status = 403 /\ r.body.error = "Origin not allowed"

C12_ConsentRequired(r) ==
    /\ r.status = 403
    /\ "requires_consent" \in DOMAIN r.body
    /\ r.body.requires_consent

\* C12: consent gates issuance over the whole lifecycle of a registered
\* tenant.  Every token request (from an allowed origin) of a user for the
\* tenant is answered by the state of the consent row: with no row (before
\* any grant) or a revoked row, 403 requires_consent; with an Active row, 200
\* and a token whose payload names the tenant in app -- unless the rate
\* limit, reached by tokens already issued to the pair, answers 429.
C12_ConsentGatesLifecycle ==
    \A s \in Slots :
        LET r == req[s]
        IN (/\ r.pc = "done" /\ r.op = "issue" /\ r.user \in Users
            /\ r.app \in DOMAIN registered_apps /\ ~C12_OriginRejected(r))
           => IF ConsentActive(r.user, r.app)
              THEN \/ /\ r.status = 200
                      /\ PayloadOf(r.body.blind_token).app = r.app
                      /\ r.body.app = r.app
                   \/ r.status = 429 /\ IssuedFor(r.user, r.app) # {}
              ELSE C12_ConsentRequired(r)

\* C12 witness: after a grant, a token and the revocation of the consent,
\* the user's token request is answered 403 requires_consent again.
C12_Witness ==
    \E s \in Slots :
        /\ req[s].pc = "done" /\ req[s].op = "issue"
        /\ C12_ConsentRequired(req[s])
        /\ IssuedFor(req[s].user, req[s].app) # {}
        /\ \E c \in ConnRows(req[s].user, req[s].app) :
                ~c.is_active /\ c.revoked_at # NullTime

\* C13: re-granting a revoked consent reuses the row: the write of a grant
\* that found a row adds no row, clears revoked_at and revoked_by, sets the
\* scopes just granted and leaves tokens_issued alone; so that, between
\* requests, tokens_issued of a row is the number of tokens issued to its
\* user for its tenant, before and after a revocation (the next token after
\* the re-grant makes it the pre-revocation value plus one).
C13_Regrant(s) ==
    LET r == req[s]
        old == CHOOSE c \in user_app_connections : c.id = r.connId
    IN /\ {c.id : c \in user_app_connections'} = {c.id : c \in user_app_connections}
       /\ \A c \in user_app_connections' :
            IF c.id = r.connId
            THEN /\ c.is_active
                 /\ c.revoked_at = NullTime /\ c.revoked_by = ""
                 /\ c.granted_scopes = r.scopes
                 /\ c.tokens_issued = old.tokens_issued
                 /\ c.user_id = old.user_id /\ c.app_id = old.app_id
            ELSE c \in user_app_connections

C13_Counted ==
    (\A s \in Slots : Free(s))
    => \A c \in user_app_connections :
            c.tokens_issued = Cardinality(IssuedFor(c.user_id, c.app_id))

C13_RegrantKeepsCount ==
    /\ []C13_Counted
    /\ [][\A s \in Slots :
            (req[s].pc = "g_write" /\ req[s].connId # 0 /\ req'[s].pc = "done"
                /\ req'[s].status = 200)
            => C13_Regrant(s)]_vars

\* C13 witness: a re-grant has been answered for a row that was revoked
\* after a token had been counted on it.
C13_Witness ==
    \E s \in Slots :
        /\ req[s].pc = "done" /\ req[s].op = "grant" /\ req[s].status = 200
        /\ ~req[s].body.is_new
        /\ \E c \in ConnRows(req[s].user, req[s].app) :
                c.is_active /\ c.tokens_issued >= 1
        /\ \E e \in BagToSet(audit_logs) :
                e.action = "app_revoked" /\ e.user_id = req[s].user

\* C14: the consent table holds at most one row for each (user, tenant) pair
\* in every reachable state, two concurrent first grants included, and no
\* step deletes a row or changes the pair a row belongs to.
C14_OnePerPair ==
    \A u \in Users, a \in AppIds : Cardinality(ConnRows(u, a)) <= 1

C14_RowsKept ==
    \A c \in user_app_connections :
        \E d \in user_app_connections' :
            d.id = c.id /\ d.user_id = c.user_id /\ d.app_id = c.app_id

C14_OneConsentRow == []C14_OnePerPair /\ [][C14_RowsKept]_vars

\* C14 witness: of two concurrent first grants of a pair, one inserted the
\* row and the other was refused at its insert.
C14_Witness ==
    \E s, t \in Slots :
        /\ s # t
        /\ req[s].pc = "done" /\ req[s].op = "grant" /\ req[s].status = 201
        /\ req[t].pc = "done" /\ req[t].op = "grant" /\ req[t].status = 500
        /\ req[t].user = req[s].user /\ req[t].app = req[s].app
        /\ Cardinality(ConnRows(req[s].user, req[s].app)) = 1

\* C15: in every reachable state the granted_scopes of every consent row are
\* a subset of the allowed_scopes of the row's tenant.
C15_GrantedWithinAllowed ==
    \A c \in user_app_connections :
        c.app_id \in DOMAIN registered_apps
        => c.granted_scopes \subseteq registered_apps[c.app_id].allowed_scopes

\* C15, the grant's side: a grant naming a scope the tenant does not allow is
\* answered 400 by a step that leaves the consent table alone.
C15_InvalidScopeRejected ==
    [][\A s \in Slots :
        (/\ req[s].pc = "g_app"
         /\ req[s].app \in DOMAIN registered_apps
         /\ registered_apps[req[s].app].is_active
         /\ ~(req[s].scopes \subseteq registered_apps[req[s].app].allowed_scopes)
         /\ req'[s] # req[s])
        => /\ req'[s].pc = "done" /\ req'[s].status = 400
           /\ user_app_connections' = user_app_connections]_vars

\* C16: a suspended user never receives a token, whether or not the tier
\* lookup of the request fails: no token issued belongs to a suspended user.
C16_SuspendedNeverIssued ==
    \A n \in DOMAIN issued : ~user_profiles[issued[n].user].is_suspended

\* C17: no token is issued for a tenant whose is_active flag is false, and
\* no token is issued for a tenant id that is neither registered nor the
\* reserved default (such a request is answered 404).
C17_NoTokenForInactive ==
    \A s \in Slots :
        (req[s].pc = "done" /\ req[s].op = "issue" /\ req[s].user \in Users)
        => /\ (req[s].app \in DOMAIN registered_apps
                    /\ ~registered_apps[req[s].app].is_active)
               => req[s].status # 200
           /\ (req[s].app \notin DOMAIN registered_apps /\ req[s].app # DefaultApp)
               => req[s].status = 404

\* C17, the unknown tenant alone.
C17_UnknownTenant ==
    \A s \in Slots :
        (/\ req[s].pc = "done" /\ req[s].op = "issue" /\ req[s].user \in Users
         /\ req[s].app \notin DOMAIN registered_apps /\ req[s].app # DefaultApp)
        => req[s].status = 404 /\ IssuedFor(req[s].user, req[s].app) = {}

\* C18: every token returned with a 200 has a ledger entry keyed by its
\* nonce that records the hash of the token, also in runs where a datastore
\* write fails.
C18_IssuedIsLogged ==
    \A n \in DOMAIN issued :
        /\ n \in DOMAIN blind_token_log
        /\ blind_token_log[n].token_hash = hashToken(issued[n].token)

\* C19: once all requests have completed, tokens_issued of every consent row
\* is the number of tokens issued to its user for its tenant, and
\* total_tokens_issued of every tenant is the number of tokens issued for it,
\* under any interleaving of token requests, consent revocations and grants.
C19_TenantCounted ==
    (\A s \in Slots : Free(s))
    => \A a \in DOMAIN registered_apps :
            registered_apps[a].total_tokens_issued =
                Cardinality({n \in DOMAIN issued : issued[n].app = a})

C19_CountersExact == C13_Counted /\ C19_TenantCounted

\* C20: with the audit store accepting writes, each successful grant,
\* consent revocation, token issuance, token revocation and revoke-all
\* appends exactly one audit event: the step that answers such a request
\* with success adds one event, and no other step adds any.  (A revoke of a
\* token that is revoked already is answered by the lookup step and changes
\* nothing.)
C20_Succeeds(s) ==
    /\ req[s].pc \notin {"idle", "done"}
    /\ req'[s].pc = "done"
    /\ req'[s].status \in {200, 201}
    /\ req'[s].op \in {"grant", "unconsent", "issue", "revoke"}
    /\ req[s].pc # "rv_body"

C21_Fails(s) ==
    /\ req[s].pc \notin {"idle", "done"}
    /\ req'[s].pc = "done"
    /\ req'[s].status \in {400, 403, 404, 429}
    /\ req'[s].op \in {"grant", "unconsent", "issue", "revoke"}

C21_FailureLogged ==
    [][\A s \in Slots :
        C21_Fails(s)
        => /\ BagCardinality(audit_logs') = BagCardinality(audit_logs) + 1
           /\ \E e \in BagToSet(audit_logs') :
                /\ ~e.success
                /\ CopiesIn(e, audit_logs') = CopiesIn(e, audit_logs) + 1]_vars

\* C21, the trail alone: no event ever written records a failure.
C21_NoFailureEvent == \A e \in BagToSet(audit_logs) : e.success

\* C22: a failure of the audit write never aborts the primary operation:
\* in runs where the audit writes are the only calls that fail, no token
\* request, revoke-all, grant or consent revocation is answered with the
\* error of a failed call (500).
C22_AuditFailureHarmless ==
    \A s \in Slots :
        (req[s].pc = "done" /\ req[s].op \in {"issue", "revoke", "grant", "unconsent"})
        => req[s].status # 500

\* C22, the handlers that write the event themselves: a token request and a
\* revoke-all are not answered 500 in these runs.
C22_HandlerEventsBestEffort ==
    \A s \in Slots :
        (req[s].pc = "done" /\ req[s].op \in {"issue", "revoke"})
        => req[s].status # 500

\* C23: when the rate-limit check itself fails, the request goes on as if
\* the check had allowed it: with every check failing, no token request and
\* no revocation is answered 429, and none is answered 500 but by the
\* revoke_blind_token call of a later step; a token request that passed the
\* consent check is answered with its token.
C23_FailOpen ==
    \A s \in Slots :
        /\ (req[s].pc = "done" /\ req[s].op \in {"issue", "revoke"})
            => /\ req[s].status # 429
               /\ req[s].status = 500 => req[s].body.error = "Failed to revoke token"
        /\ (req[s].op \in {"issue", "revoke"} /\ ~Free(s))
            => req[s].pc \in {"tier", "app", "conn", "rate", "log", "audit",
                              "rv_body", "rv_rpc", "rv_audit"}
        /\ (req[s].pc = "done" /\ req[s].op = "issue" /\ req[s].saw
                /\ ~C12_OriginRejected(req[s]))
            => req[s].status = 200

\* C23 witness: with the limiter down, a user has been given more tokens for
\* the tenant within one window than the tenant's limit, and a revoke-all
\* or a token request has just been answered 200.
C23_Witness ==
    /\ rate_limits = << >>
    /\ \E s \in Slots, u \in Users :
        /\ req[s].pc = "done" /\ req[s].op = "issue" /\ req[s].status = 200
        /\ req[s].user = u
        /\ Cardinality(IssuedFor(u, SeedApp)) >
                registered_apps[SeedApp].rate_limit_tokens_per_hour

\* C24: check_rate_limit changes the buckets only when it allows: the write
\* of an allowed call adds one to the count of the current bucket of its
\* (identifier, action), creating it at 1 if absent, and touches no other
\* bucket; a denied call, and every other step, leaves the buckets alone.
C24_Allowed(s) ==
    LET k == <<req[s].rlId, req[s].rlAction, DateTruncMinute(now)>>
    IN /\ DOMAIN rate_limits' = DOMAIN rate_limits \cup {k}
       /\ rate_limits'[k] = (IF k \in DOMAIN rate_limits THEN rate_limits[k] ELSE 0) + 1
       /\ \A j \in DOMAIN rate_limits : j # k => rate_limits'[j] = rate_limits[j]

C24_BucketsFrame ==
    [][IF \E s \in Slots : req[s].pc = "rate_write" /\ req'[s] # req[s]
       THEN \E s \in Slots :
                req[s].pc = "rate_write" /\ req'[s] # req[s] /\ C24_Allowed(s)
       ELSE rate_limits' = rate_limits]_vars

\* C24 witness: a call has been denied (429) after allowed calls had created
\* a bucket and then raised its count to 2.
C24_Witness ==
    \E s \in Slots :
        /\ req[s].pc = "done" /\ req[s].op = "issue" /\ req[s].status = 429
        /\ \E k \in DOMAIN rate_limits :
                /\ k[1] = req[s].user \o ":" \o req[s].app /\ k[2] = "blind_token"
                /\ rate_limits[k] = 2

\* C25: the retry_after sent with a 429 is the time until the oldest bucket
\* contributing to the count leaves the lookback window: that bucket's
\* window_start plus the window, less the time of the response.
C25_Contributing(s) ==
    {k \in DOMAIN rate_limits :
        /\ k[1] = req[s].user \o ":" \o req[s].app /\ k[2] = "blind_token"
        /\ k[3] > req[s].vnow - DEFAULT_RATE_LIMIT_WINDOW}

C25_Oldest(s) ==
    CHOOSE t \in {k[3] : k \in C25_Contributing(s)} :
        \A k \in C25_Contributing(s) : t <= k[3]

C25_RetryAfterOldestBucket ==
    \A s \in Slots :
        (/\ req[s].pc = "done" /\ req[s].op = "issue" /\ req[s].status = 429
         /\ C25_Contributing(s) # {})
        => req[s].body.retry_after =
                (C25_Oldest(s) + DEFAULT_RATE_LIMIT_WINDOW) - req[s].vnow

\* C25, what the code sends: reset_at of a denial is NOW(), retry_after 0.
C25_RetryAfterZero ==
    \A s \in Slots :
        (req[s].pc = "done" /\ req[s].status = 429) => req[s].body.retry_after = 0

\* C26: no update a tenant's owner is permitted to perform on its own tenant
\* changes the tenant's is_verified flag or its is_active flag.  (In these
\* runs the steps that change registered_apps while no request moves are the
\* owners' updates.)
C26_OwnerStep == req' = req /\ registered_apps' # registered_apps

C26_OwnerKeepsFlags ==
    [][C26_OwnerStep
       => \A a \in DOMAIN registered_apps :
            /\ registered_apps'[a].is_verified = registered_apps[a].is_verified
            /\ registered_apps'[a].is_active = registered_apps[a].is_active]_vars

\* C26, the verification flag alone.
C26_OwnerKeepsVerified ==
    [][C26_OwnerStep
       => \A a \in DOMAIN registered_apps :
            registered_apps'[a].is_verified = registered_apps[a].is_verified]_vars

\* C27: a register call naming a tenant id that is already registered fails
\* with 409 and returns no credentials, also when two registrations of the
\* same id run concurrently: of the valid registrations of an id, one is
\* answered 201 and every other one 409.
C27_DuplicateIs409 ==
    \A s \in Slots :
        (/\ req[s].pc = "done" /\ req[s].op = "register" /\ req[s].kind = "valid"
         /\ req[s].user \in Users /\ req[s].status # 201)
        => /\ req[s].status = 409
           /\ "shared_secret" \notin DOMAIN req[s].body
           /\ req[s].app \in DOMAIN registered_apps

\* C27, the sequential duplicate: the existence check answers 409 for an id
\* the registry holds, and no step replaces a tenant's row by another
\* owner's.
C27_DuplicateCreatesNothing ==
    [][\A s \in Slots :
        (req[s].pc = "rg_exist" /\ req[s].app \in DOMAIN registered_apps
            /\ req'[s] # req[s])
        => /\ req'[s].pc = "done" /\ req'[s].status = 409
           /\ registered_apps' = registered_apps]_vars

\* C28: after any interleaving of register calls no owner owns more than
\* MAX_APPS_PER_USER tenants.
C28_QuotaKept == \A u \in Users : OwnedApps(u) <= MAX_APPS_PER_USER

\* C28, one registration after the other: the registration of an owner who
\* holds MAX_APPS_PER_USER tenants when it is authenticated is answered 403
\* by that step, which creates nothing.
C28_FullOwnerRejected ==
    [][\A s \in Slots :
        (/\ req[s].pc = "rg_auth" /\ req[s].user \in Users
         /\ OwnedApps(req[s].user) >= MAX_APPS_PER_USER
         /\ req'[s] # req[s])
        => /\ req'[s].pc = "done" /\ req'[s].status = 403
           /\ registered_apps' = registered_apps]_vars

\* C29: for every token issued for a registered tenant, exp - iat is the
\* tenant's configured token_expiry_seconds, whatever value is configured,
\* and the expires_at of the ledger entry and of the response are that exp.
C29_Minted(s) == req[s].pc = "log" /\ req'[s].pc = "audit"

C29_ExpiryIsConfigured ==
    [][\A s \in Slots :
        (C29_Minted(s) /\ req[s].app \in DOMAIN registered_apps)
        => LET payload == PayloadOf(req'[s].body.blind_token)
           IN /\ payload.exp - payload.iat =
                    registered_apps[req[s].app].token_expiry_seconds
              /\ blind_token_log'[payload.nonce].expires_at = payload.exp
              /\ req'[s].body.expires_at = payload.exp]_vars

\* C29, the values the handler does not replace: a configured value other
\* than 0 is the lifetime of the token, and the ledger and the response
\* carry the token's exp.
C29_NonZeroExpiry ==
    [][\A s \in Slots :
        (C29_Minted(s) /\ req[s].app \in DOMAIN registered_apps)
        => LET payload == PayloadOf(req'[s].body.blind_token)
               ttl == registered_apps[req[s].app].token_expiry_seconds
           IN /\ ttl # 0 => payload.exp - payload.iat = ttl
              /\ ttl = 0 => payload.exp - payload.iat = DEFAULT_TOKEN_EXPIRY
              /\ blind_token_log'[payload.nonce].expires_at = payload.exp
              /\ req'[s].body.expires_at = payload.exp]_vars

\* ---- the order of the issuer's checks
\* What the checks find for the request of slot s, in the state its answer
\* is given in.
C30_Answered(s) ==
    req'[s] # req[s] /\ req'[s].pc = "done" /\ req'[s].op = "issue"

C30_NoCredential(s) == req'[s].user = NoUser
C30_Suspended(s) == user_profiles[req'[s].user].is_suspended
C30_Unknown(s) == req'[s].app \notin DOMAIN registered_apps /\ req'[s].app # DefaultApp
C30_Inactive(s) ==
    req'[s].app \in DOMAIN registered_apps /\ ~registered_apps[req'[s].app].is_active
C30_NoConsent(s) ==
    /\ req'[s].app \in DOMAIN registered_apps
    /\ ~ConsentActive(req'[s].user, req'[s].app)

C30_Says(s, status, error) == req'[s].status = status /\ req'[s].body.error = error

\* Nothing is signed, logged or audited while a token request is at its
\* checks.
C30_ChecksWriteNothing ==
    (\E s \in Slots : req[s].op = "issue"
                        /\ req[s].pc \in {"tier", "app", "conn", "rate", "rate_write"})
    => UNCHANGED <<blind_token_log, app_token_log, audit_logs, minted, issued>>

C31_NoActive(s) ==
    /\ req[s].op = "unconsent" /\ req[s].pc = "u_rpc"
    /\ ~ConsentActive(req[s].user, req[s].app)

C31_NothingToRevoke ==
    [][\A s \in Slots :
        (C31_NoActive(s) /\ req'[s] # req[s])
        => /\ req'[s].pc = "done" /\ req'[s].status = 404
           /\ db' = db]_vars

\* A 404 to a consent revoke, with the pair's row revoked earlier.
C31_Witness ==
    \E s \in Slots :
        /\ req[s].op = "unconsent" /\ req[s].pc = "done" /\ req[s].status = 404
        /\ \E c \in ConnRows(req[s].user, req[s].app) :
              ~c.is_active /\ c.revoked_at # NullTime /\ c.revoked_at < req[s].vnow
                /\ c.revoked_by = "user"

\* A 404 to a consent revoke naming a tenant the registry does not hold.
C31_WitnessUnknown ==
    \E s \in Slots :
        /\ req[s].op = "unconsent" /\ req[s].pc = "done" /\ req[s].status = 404
        /\ req[s].app \notin DOMAIN registered_apps

\* The calls of check_rate_limit for (u ":" a, 'blind_token') that were
\* allowed at a time in the interval [t, t + w): with sequential callers and
\* no failing call, each is the one of a token request answered 200.
C32_AllowedIn(u, a, t, w) ==
    {n \in IssuedFor(u, a) : issued[n].at >= t /\ issued[n].at < t + w}

\* C32: for sequential callers of check_rate_limit with one (identifier,
\* action, max_requests, window_seconds), every time interval of length
\* window_seconds holds at most max_requests allowed calls, also when calls
\* fall late in a one-minute bucket (whose window_start is truncated).
C32_AtMostMaxPerInterval ==
    \A u \in Users, t \in 0..MaxTime :
        Cardinality(C32_AllowedIn(u, SeedApp, t, DEFAULT_RATE_LIMIT_WINDOW))
            <= registered_apps[SeedApp].rate_limit_tokens_per_hour

\* What the buckets do guarantee: at most max_requests allowed calls in every
\* interval one bucket shorter than the window.
C32_AtMostMaxPerShortInterval ==
    \A u \in Users, t \in 0..MaxTime :
        Cardinality(C32_AllowedIn(u, SeedApp, t,
                                  DEFAULT_RATE_LIMIT_WINDOW - (MinuteTicks - 1)))
            <= registered_apps[SeedApp].rate_limit_tokens_per_hour

\* C33: revocation is permanent for the life of the token.  While an entry
\* is unexpired no step removes it from the ledger (the purge included), and
\* once it is revoked its revoked_at and revocation_reason are never changed
\* again, by a later revoke, revoke_all, issuance or purge: is_revoked stays
\* true.
C33_Unexpired(n) == blind_token_log[n].expires_at > now

C33_Kept(n) ==
    /\ n \in DOMAIN blind_token_log'
    /\ blind_token_log[n].revoked_at # NullTime
        => /\ blind_token_log'[n].revoked_at = blind_token_log[n].revoked_at
           /\ blind_token_log'[n].revocation_reason = blind_token_log[n].revocation_reason

C33_RevocationPermanent ==
    [][\A n \in DOMAIN blind_token_log : C33_Unexpired(n) => C33_Kept(n)]_vars

\* A revoked, unexpired entry that a later revoke_all of its owner has met,
\* after the purge removed another entry.
C33_Witness ==
    \E n \in DOMAIN blind_token_log, s \in Slots :
        /\ blind_token_log[n].revoked_at # NullTime
        /\ C33_Unexpired(n)
        /\ req[s].op = "revoke" /\ req[s].kind = "all" /\ req[s].pc = "done"
        /\ req[s].status = 200 /\ req[s].user = blind_token_log[n].user_id
        /\ req[s].vnow > blind_token_log[n].revoked_at
        /\ DOMAIN issued \ DOMAIN blind_token_log # {}

\* A revoke request for a nonce of its caller's, answered.
C34_Answered(s) ==
    /\ req[s].op = "revoke" /\ req[s].kind = "nonce" /\ req[s].pc = "done"
    /\ req[s].nonce \in DOMAIN blind_token_log
    /\ blind_token_log[req[s].nonce].user_id = req[s].user

\* C34: when several revoke requests for the same unrevoked nonce run
\* concurrently, the entry is revoked, every request is answered with
\* success, and exactly one of them reports revoked_count = 1 (the others 0).
C34_ConcurrentRevokeOnce ==
    /\ \A s \in Slots :
        C34_Answered(s)
        => /\ req[s].status = 200 /\ req[s].body.success
           /\ is_token_revoked(req[s].nonce)
    /\ ((\A s \in Slots : C34_Answered(s)) /\ (\A s \in Slots : req[s].nonce = req[1].nonce))
        => Cardinality({s \in Slots : req[s].body.revoked_count = 1}) = 1

\* What the handler does with revoke_blind_token raising: every revoke
\* request for an unrevoked nonce of its caller's is answered 500 and no
\* entry is ever revoked.
C34_NoneRevoked ==
    /\ \A n \in DOMAIN blind_token_log : ~is_token_revoked(n)
    /\ \A s \in Slots : C34_Answered(s) => req[s].status = 500

\* Two requests for the same nonce of their caller's, both past the lookup.
C34_Overlap ==
    /\ \A s \in Slots : req[s].op = "revoke" /\ req[s].pc = "rv_rpc"
    /\ req[1].nonce = req[2].nonce

\* The step of a consent revoke: its call of revoke_app_connection.
C35_Step(s) ==
    /\ req[s].op = "unconsent" /\ req[s].pc = "u_rpc" /\ req'[s] # req[s]

\* C35: revoking a consent changes only the consent row of the pair and the
\* audit log.  The ledger is left as it is, so every token issued to the
\* user for the tenant stays unrevoked (here, where no request revokes a
\* token, every issued token is in the ledger and unrevoked at all times).
C35_OnlyConsentRow ==
    \A s \in Slots :
        C35_Step(s)
        => /\ UNCHANGED <<blind_token_log, app_token_log, registered_apps,
                          rate_limits, user_profiles, credentials>>
           /\ \A c \in user_app_connections :
                (c.user_id # req[s].user \/ c.app_id # req[s].app)
                    => c \in user_app_connections'
           /\ {c.id : c \in user_app_connections'} = {c.id : c \in user_app_connections}

C35_TokensUnrevoked ==
    \A n \in DOMAIN issued :
        n \in DOMAIN blind_token_log /\ ~is_token_revoked(n)

C35_ConsentRevokeKeepsLedger ==
    /\ []C35_TokensUnrevoked
    /\ [][C35_OnlyConsentRow]_vars

\* A consent revoked while a token of the pair is unexpired and unrevoked.
C35_Witness ==
    \E s \in Slots :
        /\ req[s].op = "unconsent" /\ req[s].pc = "done" /\ req[s].status = 200
        /\ ~ConsentActive(req[s].user, req[s].app)
        /\ \E n \in IssuedFor(req[s].user, req[s].app) :
            /\ blind_token_log[n].expires_at > now
            /\ ~is_token_revoked(n)

\* A step of the token request in slot s: its admission or a later step.
C36_Step(s) ==
    /\ req'[s] # req[s]
    /\ req'[s].op = "issue"
    /\ started' # started \/ req[s].op = "issue"

\* The step that answers the token request in slot s with a rejection.
C36_Rejecting(s) ==
    C36_Step(s) /\ req'[s].pc = "done" /\ req'[s].status # 200

\* The Token Log (ledger and tenant linkage) and the usage counters of the
\* tenants and of the consent rows are as they were.
C36_LogAndCountersKept ==
    UNCHANGED <<blind_token_log, app_token_log, registered_apps, user_app_connections>>

\* C36: a token request that is rejected (answered with another status than
\* 200) writes no Token Log entry and increments no usage counter; rejected
\* before the rate-limit step, it leaves the rate-limit buckets unchanged as
\* well.  Step by step: the rejecting step writes none of them; a step that
\* writes the log or a counter is the logging step, after which the request
\* can only be answered 200; a step that writes a bucket is the limiter's
\* write, after which the request goes on to the logging step.
C36_RejectedWritesNothing ==
    [][\A s \in Slots :
        /\ C36_Rejecting(s)
            => /\ C36_LogAndCountersKept
               /\ req'[s].nonce = UnknownNonce
               /\ (started' # started \/ req[s].pc \in {"tier", "app", "conn"})
                    => UNCHANGED rate_limits
        /\ (C36_Step(s) /\ ~C36_LogAndCountersKept)
            => req[s].pc = "log" /\ req'[s].pc = "audit"
        /\ (C36_Step(s) /\ req[s].pc \in {"log", "audit"})
            => req'[s].pc = "audit" \/ req'[s].status = 200
        /\ (C36_Step(s) /\ rate_limits' # rate_limits)
            => req[s].pc = "rate_write" /\ req'[s].pc = "log"]_vars

\* A token request rejected before the rate-limit step, after a token was
\* issued and counted.
C36_Witness ==
    \E s \in Slots :
        /\ req[s].op = "issue" /\ req[s].pc = "done"
        /\ req[s].status \in {401, 403, 404}
        /\ blind_token_log # << >> /\ rate_limits # << >>

\* A token request rejected by the rate limit.
C36_WitnessLimited ==
    \E s \in Slots :
        req[s].op = "issue" /\ req[s].pc = "done" /\ req[s].status = 429

\* The number of 'app_registered' events of the audit log for tenant a.
C37_Events(a) ==
    SumOver(audit_logs,
            {e \in BagToSet(audit_logs) : e.action = "app_registered" /\ e.app = a})

C37_Registered(s) ==
    req[s].op = "register" /\ req[s].pc = "done" /\ req[s].status = 201

\* C37: a successful tenant registration appends exactly one
\* 'app_registered' audit event for the new tenant.
C37_OneRegistrationEvent ==
    \A s \in Slots : C37_Registered(s) => C37_Events(req[s].app) = 1

\* What the code does: register_app logs the event and the handler logs it
\* again, two events for one registration.
C37_TwoRegistrationEvents ==
    \A s \in Slots : C37_Registered(s) => C37_Events(req[s].app) = 2

\* The number of verification requests that went on to signature
\* verification with the challenge stored under key k.
C38_Uses(k) ==
    SumOver(pk_verified, {e \in BagToSet(pk_verified) : e.key = k})

\* No challenge was taken to signature verification after its expiry.
C38_ExpiredNeverAccepted ==
    \A e \in BagToSet(pk_verified) : e.expires_at >= e.at

\* C38: a passkey challenge is single-use.  For every stored challenge_key
\* at most one verification request proceeds past the challenge lookup to
\* signature verification, in every interleaving of concurrent requests
\* presenting the same key, and an expired challenge is never accepted.
C38_ChallengeSingleUse ==
    /\ \A k \in ChallengeKeys : C38_Uses(k) <= 1
    /\ C38_ExpiredNeverAccepted

\* Two requests presenting one challenge_key have both read its row.
C38_Overlap ==
    /\ \A s \in Slots : req[s].op = "pk_verify" /\ req[s].pc = "pk_delete"
    /\ req[1].key = req[2].key

\* A request that read an expired challenge (left by a failed cleanup) is
\* answered.
C38_ExpiredRejected ==
    \E s \in Slots :
        /\ req[s].op = "pk_verify" /\ req[s].pc = "done"
        /\ req[s].stored # NoChallenge /\ req[s].stored.expires_at < req[s].vnow

\* The time of the most recent failed attempt of an identifier.
C39_LastFailure(identifier) ==
    MaxOf({e.created_at : e \in FailedAttempts(identifier)})

\* The failed attempts of an identifier in the attempt window that ends at
\* time t.
C39_FailuresIn(identifier, t) ==
    SumOver(audit_logs,
            {e \in FailedAttempts(identifier) :
                e.created_at >= t - ATTEMPT_WINDOW_MS /\ e.created_at <= t})

\* The identifier is locked out: MAX_FAILED_ATTEMPTS failed attempts lie in
\* the attempt window that ends at the most recent one, and
\* LOCKOUT_DURATION_MS has not elapsed since that one.
C39_LockedOut(identifier) ==
    /\ FailedAttempts(identifier) # {}
    /\ C39_FailuresIn(identifier, C39_LastFailure(identifier)) >= MAX_FAILED_ATTEMPTS
    /\ now < C39_LastFailure(identifier) + LOCKOUT_DURATION_MS

\* The rate-limit check of the request in slot s answers.
C39_Check(s) == req[s].pc = "pk_rate" /\ req'[s].pc # "pk_rate"

\* C39: after MAX_FAILED_ATTEMPTS (5) failed passkey authentications for one
\* client identifier within the attempt window, every further challenge or
\* verification request from that identifier is rejected with 429 until
\* LOCKOUT_DURATION (15 minutes) has elapsed since the most recent failed
\* attempt.
C39_LockoutLasts ==
    [][\A s \in Slots :
            C39_Check(s) /\ C39_LockedOut(req[s].ip) => req'[s].status = 429]_vars

\* While MAX_FAILED_ATTEMPTS failed attempts lie in the attempt window that
\* ends now, the request is rejected with 429, and no request is rejected
\* otherwise.
C39_LockedWhileInWindow ==
    [][\A s \in Slots :
            C39_Check(s) =>
                (req'[s].status = 429
                    <=> C39_FailuresIn(req[s].ip, now) >= MAX_FAILED_ATTEMPTS)]_vars

\* A request was rejected with 429.
C39_Rejected ==
    \E s \in Slots : req[s].pc = "done" /\ req[s].status = 429

\* A request passed the check although the identifier was locked out.
C39_AllowedInLockout ==
    \E s \in Slots :
        /\ req[s].pc \in {"pk_issue", "pk_lookup"}
        /\ C39_LockedOut(req[s].ip)

====
